---- MODULE Spec2Model ----
(***************************************************************************)
(* Verification model of the FTIR baseline tools:                          *)
(*   - baseline_als                     (src/modules/baseline.py)          *)
(*   - BaselineCreationTab              (src/modules/gui_components.py,    *)
(*                                       duplicated in src/main.py)        *)
(*   - save_ylk_file                    (src/modules/file_converter.py)    *)
(*                                                                         *)
(*   - convert_jws_to_ylk_direct        (src/modules/file_converter.py)    *)
(*   - preprocess_data                  (src/modules/data_processing.py)   *)
(*   - FTIRAnalyzer                     (src/main.py)                      *)
(*                                                                         *)
(* The specifications share the variables of this module:                  *)
(*   SpecAls     one call of baseline_als, stepped through its loop        *)
(*   SpecAdjust  one call of _apply_anchor_adjustments                     *)
(*   Spec        a baseline tab session: mouse, key, menu, parameter and   *)
(*               save events on one record of the analyzer's folders map   *)
(*   SpecRemove  calls of _remove_anchor_point                             *)
(*   SpecNorm    one call of preprocess_data                               *)
(*   SpecCodec   a .jws file converted, loaded, saved and loaded again     *)
(*   SpecStore   analyzer sessions: folders added, files selected,         *)
(*               baseline tabs opened and saved, the program restarted     *)
(*   SpecWindow  the Savitzky-Golay pre-pass of baseline_correction and    *)
(*               get_baseline_with_raw                                     *)
(*   SpecSelect  the analyzer's selected files: the Add, Remove and Clear  *)
(*               buttons and the double-clicks on the tree and the list    *)
(***************************************************************************)
EXTENDS Integers, Sequences, FiniteSets, TLC

VARIABLES
    \* ---- one call of baseline_als ----
    als_pc,             \* "validate" | "loop" | "return" | "done" | "idle"
    y,                  \* the signal: sequence of numbers (finite, nan or inf)
    lam,                \* smoothness parameter
    p,                  \* asymmetry parameter: the rational n/d, nan or inf
    niter,              \* number of iterations
    w,                  \* weights, in units of 1/p.d
    z,                  \* current baseline estimate: sequence of rationals or nan
    it,                 \* loop counter i of "for i in range(niter)"
    als_result,         \* [raised, value]: what the call produced
    \* ---- one call of _apply_anchor_adjustments ----
    adj_pc,             \* "call" | "loop" | "done" | "idle"
    x_data,             \* the x grid
    baseline_arg,       \* the value of the als_baseline argument when the call was made
    als_baseline,       \* the current content of the array passed as als_baseline
    adjusted_baseline,  \* the array the call works on and returns
    adj_alias,          \* TRUE when adjusted_baseline is the same array object as als_baseline
    anchor_i,           \* position of "for anchor_x, anchor_y in self.anchors"
    \* ---- the baseline tab ----
    anchors,            \* self.anchors: sequence of <<x, y>>
    selected_anchor,    \* self.selected_anchor: an index from 0, or None
    dragging,           \* self.dragging
    fixed_lim,          \* self._fixed_xlim and self._fixed_ylim, once set
    shown,              \* what update_preview last drew on the canvas
    lambda_edit,        \* text of the lambda field, as float() reads it
    p_edit,             \* text of the p field, as float() reads it
    smooth_checkbox,    \* state of the smoothing check box
    view_toggle,        \* view_toggle_btn.isChecked()
    tab_open,           \* the tab is in the analyzer's tab widget
    has_parent,         \* parent_analyzer is not None
    raw,                \* the record's raw_data: lengths and ranges of x and y
    dicts,              \* the two top-level dict objects: the record and the tab's copy
    metas,              \* the metadata dict objects
    folder_slot,        \* which dict object folders[...]["ylk_data"][i] refers to
    disk,               \* content of the record's .ylk file
    msg,                \* the message box shown by the last handler
    write_ok,           \* what save_ylk_file returned in the last handler
    \* ---- a direct call of remove_single_anchor ----
    rm_pc,              \* "call" | "done" | "idle"
    anchor_idx,         \* the index passed to remove_single_anchor
    \* ---- one call of preprocess_data ----
    norm_pc,            \* "call" | "done" | "idle"
    absorbance,         \* df["absorbance"].values
    normalize,          \* the normalize argument
    norm_result,        \* [raised, absorbance]: what the call produced
    \* ---- one .jws file converted, loaded, saved and loaded again ----
    codec_pc,           \* "convert" | "convert returned ..." | "loaded" | "save returned ..." | "reloaded" | "idle"
    jws,                \* the .jws file
    ylk_file,           \* the text of the .ylk file
    ylk_data,           \* the dict load_ylk_file returned, as save_ylk_file left it
    reloaded,           \* the dict load_ylk_file returned after the save
    \* ---- the analyzer: source folders, loaded folders, selection, one baseline tab ----
    jws_files,          \* per folder and name: the kind of .jws file there, or "absent"
    ylk_files,          \* per folder and name: the file converted_ylk/<name>.ylk
    folders,            \* self.folders, in insertion order: path, files, ylk_data
    metadata,           \* the metadata dict objects, named by the slot they were loaded for
    selected_files,     \* self.selected_files: sequence of <<folder_path, filename>>
    selected_data,      \* self.selected_data
    visible_files,      \* self.visible_files
    selected_listbox,   \* the items of self.selected_listbox: the file key stored in each
    baseline_tab,       \* the open BaselineCreationTab, if any
    session,            \* how many times the program has been started
    box,                \* the message box shown by the last handler
    \* ---- the smoothing pre-pass of one baseline computation ----
    win_pc,             \* "call" | "done" | "idle"
    caller,             \* the function that smooths: get_baseline_with_raw or baseline_correction
    signal_len,         \* len(absorbance)
    savgol              \* the window_length and polyorder handed to savgol_filter

alsVars == <<als_pc, y, lam, p, niter, w, z, it, als_result>>

adjVars == <<adj_pc, x_data, baseline_arg, als_baseline, adjusted_baseline, adj_alias, anchor_i>>

tabVars == <<selected_anchor, dragging, fixed_lim, shown, lambda_edit, p_edit,
             smooth_checkbox, view_toggle, tab_open, has_parent, raw, dicts, metas,
             folder_slot, disk, msg, write_ok>>

rmVars == <<rm_pc, anchor_idx>>

normVars == <<norm_pc, absorbance, normalize, norm_result>>

codecVars == <<codec_pc, jws, ylk_file, ylk_data, reloaded>>

storeVars == <<jws_files, ylk_files, folders, metadata, selected_files, selected_data, visible_files,
               selected_listbox,
               baseline_tab, session, box>>

winVars == <<win_pc, caller, signal_len, savgol>>

vars == <<als_pc, y, lam, p, niter, w, z, it, als_result,
          adj_pc, x_data, baseline_arg, als_baseline, adjusted_baseline, adj_alias, anchor_i,
          anchors, selected_anchor, dragging, fixed_lim, shown, lambda_edit, p_edit,
          smooth_checkbox, view_toggle, tab_open, has_parent, raw, dicts, metas,
          folder_slot, disk, msg, write_ok, rm_pc, anchor_idx,
          norm_pc, absorbance, normalize, norm_result,
          codec_pc, jws, ylk_file, ylk_data, reloaded,
          jws_files, ylk_files, folders, metadata, selected_files, selected_data, visible_files,
               selected_listbox,
          baseline_tab, session, box,
          win_pc, caller, signal_len, savgol>>

(***************************************************************************)
(* Numbers.  A float handed to baseline_als is finite, nan or inf.         *)
(***************************************************************************)
F(v) == [k |-> "fin", v |-> v]
NaN == [k |-> "nan", v |-> 0]
PosInf == [k |-> "inf", v |-> 1]

\* np.isfinite
IsFinite(r) == r.k = "fin"

\* r <= 0 as Python evaluates it: every comparison with nan is False
LeqZero(r) == \/ r.k = "fin" /\ r.v <= 0
              \/ r.k = "inf" /\ r.v < 0

\* A rational n/d (d > 0 for a parameter), or nan
Q(n, d) == [k |-> "fin", n |-> n, d |-> d]
QNaN == [k |-> "nan", n |-> 0, d |-> 1]

\* 0 < q < 1 as Python evaluates it
StrictlyInUnit(q) == q.k = "fin" /\ 0 < q.n /\ q.n < q.d

\* y > z and y < z for a finite integer yv and a solved value; False on nan
GreaterThan(yv, zq) ==
    /\ zq.k = "fin"
    /\ IF zq.d > 0 THEN yv * zq.d > zq.n ELSE yv * zq.d < zq.n

LessThan(yv, zq) ==
    /\ zq.k = "fin"
    /\ IF zq.d > 0 THEN yv * zq.d < zq.n ELSE yv * zq.d > zq.n

(***************************************************************************)
(* Bounds of the baseline_als inputs                                       *)
(***************************************************************************)
MaxLen == 3
MaxIter == 3
PDen == 4

YVals == {F(0), F(1), F(2), NaN, PosInf}
LamVals == {F(0 - 1), F(0), F(1), F(2)}
PVals == {Q(n, PDen) : n \in 0 .. PDen}

RECURSIVE SeqsUpTo(_, _)
SeqsUpTo(S, n) ==
    IF n = 0 THEN {<<>>}
    ELSE LET shorter == SeqsUpTo(S, n - 1)
         IN shorter \cup {Append(s, e) : s \in {t \in shorter : Len(t) = n - 1}, e \in S}

(***************************************************************************)
(* The linear algebra of baseline_als                                      *)
(***************************************************************************)
\* D = sparse.diags([1, -2, 1], [0, -1, -2], shape=(L, L - 2)); rows and
\* columns are numbered from 1 here
DiffEntry(i, j) ==
    IF i = j THEN 1
    ELSE IF i = j + 1 THEN 0 - 2
    ELSE IF i = j + 2 THEN 1
    ELSE 0

RECURSIVE SumTo(_, _)
SumTo(f, n) == IF n = 0 THEN 0 ELSE f[n] + SumTo(f, n - 1)

\* D.dot(D.T), an L x L matrix
DDT(L) ==
    [i \in 1 .. L |->
        [c \in 1 .. L |->
            SumTo([j \in 1 .. (L - 2) |-> DiffEntry(i, j) * DiffEntry(c, j)], L - 2)]]

\* The matrix without its first row and its column j
Minor(M, j) ==
    LET n == Len(M)
    IN [r \in 1 .. (n - 1) |->
            [c \in 1 .. (n - 1) |-> M[r + 1][IF c < j THEN c ELSE c + 1]]]

RECURSIVE Det(_)
Det(M) ==
    LET n == Len(M)
    IN IF n = 0 THEN 1
       ELSE IF n = 1 THEN M[1][1]
       ELSE SumTo([j \in 1 .. n |->
                     (IF j % 2 = 1 THEN 1 ELSE 0 - 1) * M[1][j] * Det(Minor(M, j))], n)

\* M with its column j replaced by the vector b
ReplaceCol(M, j, b) ==
    [r \in 1 .. Len(M) |-> [c \in 1 .. Len(M) |-> IF c = j THEN b[r] ELSE M[r][c]]]

\* spsolve(Z, b): the exact solution; an exactly singular matrix makes
\* spsolve warn and fill the result with nan
SpSolve(Zm, b) ==
    LET d == Det(Zm)
    IN IF d = 0
       THEN [i \in 1 .. Len(Zm) |-> QNaN]
       ELSE [i \in 1 .. Len(Zm) |-> Q(Det(ReplaceCol(Zm, i, b)), d)]

\* Z = W + lam * D.dot(D.T), scaled by den, the unit of the weights, so that
\* all entries are integers
SystemMatrix(wv, lamv, den) ==
    LET L == Len(wv)
        P == DDT(L)
    IN [i \in 1 .. L |->
            [c \in 1 .. L |-> (IF i = c THEN wv[i] ELSE 0) + den * lamv * P[i][c]]]

\* w * y, scaled by the unit of the weights
WeightedSignal(wv, yv) == [i \in 1 .. Len(wv) |-> wv[i] * yv[i].v]

\* w = p * (y > z) + (1 - p) * (y < z), in units of 1/pv.d
UpdateWeights(yv, zv, pv) ==
    [i \in 1 .. Len(yv) |->
        (IF GreaterThan(yv[i].v, zv[i]) THEN pv.n ELSE 0)
        + (IF LessThan(yv[i].v, zv[i]) THEN pv.d - pv.n ELSE 0)]

(***************************************************************************)
(* baseline_als, one action per step                                       *)
(***************************************************************************)
\* The four input checks of baseline_als; TRUE when the call raises
RejectsNoLamCheck(yv, lamv, pv) ==
    \/ Len(yv) < 3
    \/ \E i \in 1 .. Len(yv) : ~IsFinite(yv[i])
    \/ ~StrictlyInUnit(pv)

Rejects(yv, lamv, pv) ==
    \/ Len(yv) < 3
    \/ \E i \in 1 .. Len(yv) : ~IsFinite(yv[i])
    \/ LeqZero(lamv)
    \/ ~StrictlyInUnit(pv)

NoResult == [raised |-> FALSE, value |-> <<>>]

AlsInit ==
    /\ als_pc = "validate"
    /\ y \in SeqsUpTo(YVals, MaxLen)
    /\ lam \in LamVals
    /\ p \in PVals
    /\ niter \in 1 .. MaxIter
    /\ w = <<>>
    /\ z = <<>>
    /\ it = 0
    /\ als_result = NoResult

AlsIdle ==
    /\ als_pc = "idle"
    /\ y = <<>>
    /\ lam = F(1)
    /\ p = Q(1, PDen)
    /\ niter = 1
    /\ w = <<>>
    /\ z = <<>>
    /\ it = 0
    /\ als_result = NoResult

\* lines 28-42: a rejected input raises ValueError
AlsReject ==
    /\ als_pc = "validate"
    /\ Rejects(y, lam, p)
    /\ als_pc' = "done"
    /\ als_result' = [raised |-> TRUE, value |-> <<>>]
    /\ UNCHANGED <<y, lam, p, niter, w, z, it>>
    /\ UNCHANGED <<adjVars, anchors, tabVars, rmVars, normVars, codecVars, storeVars, winVars>>

\* lines 44-49: w = np.ones(L), z = np.copy(y)
AlsSetup ==
    /\ als_pc = "validate"
    /\ ~Rejects(y, lam, p)
    /\ w' = [i \in 1 .. Len(y) |-> p.d]
    /\ z' = [i \in 1 .. Len(y) |-> Q(y[i].v, 1)]
    /\ it' = 0
    /\ als_pc' = "loop"
    /\ UNCHANGED <<y, lam, p, niter, als_result>>
    /\ UNCHANGED <<adjVars, anchors, tabVars, rmVars, normVars, codecVars, storeVars, winVars>>

\* lines 51-55: one round of the loop
AlsIterate ==
    /\ als_pc = "loop"
    /\ it < niter
    /\ LET znew == SpSolve(SystemMatrix(w, lam.v, p.d), WeightedSignal(w, y))
       IN /\ z' = znew
          /\ w' = UpdateWeights(y, znew, p)
    /\ it' = it + 1
    /\ UNCHANGED <<als_pc, y, lam, p, niter, als_result>>
    /\ UNCHANGED <<adjVars, anchors, tabVars, rmVars, normVars, codecVars, storeVars, winVars>>

\* line 57: return z
AlsReturn ==
    /\ als_pc = "loop"
    /\ it = niter
    /\ als_pc' = "done"
    /\ als_result' = [raised |-> FALSE, value |-> z]
    /\ UNCHANGED <<y, lam, p, niter, w, z, it>>
    /\ UNCHANGED <<adjVars, anchors, tabVars, rmVars, normVars, codecVars, storeVars, winVars>>

AlsNext == AlsReject \/ AlsSetup \/ AlsIterate \/ AlsReturn

(***************************************************************************)
(* Floating point.  Abscissae are small integers, on which float64         *)
(* arithmetic is exact.  Ordinates are binary floating-point numbers with  *)
(* a significand of MantBits bits, rounded to nearest, ties to even, after *)
(* every operation: float64 scaled down so that rounding shows at the      *)
(* scale of the model.  Weights are held in units of 1/WScale.             *)
(***************************************************************************)
MantBits == 3

\* np.exp(-k/8) for k = 0, 1, 2, ... in units of 1/64, rounded to nearest;
\* zero beyond the end of the table
ExpTable == <<64, 56, 50, 44, 39, 34, 30, 27, 24, 21, 18, 16, 14, 13, 11, 10,
              9, 8, 7, 6, 5, 5, 4, 4, 3, 3, 2, 2, 2, 2, 2,
              1, 1, 1, 1, 1, 1, 1, 1>>

\* The unit of the weights: exp(0) = 1 is WScale units
WScale == ExpTable[1]

Abs(v) == IF v < 0 THEN 0 - v ELSE v

RECURSIVE Pow2(_)
Pow2(n) == IF n = 0 THEN 1 ELSE 2 * Pow2(n - 1)

\* The spacing of the floating-point numbers around magnitude m
RECURSIVE UlpFrom(_, _)
UlpFrom(m, u) == IF m < u * Pow2(MantBits) THEN u ELSE UlpFrom(m, 2 * u)

Ulp(m) == UlpFrom(m, 1)

\* The rational n/d (d > 0) rounded to the nearest floating-point number
Fl(n, d) ==
    LET a == Abs(n)
        u == Ulp(a \div d)
        q == a \div (d * u)
        r == a - q * d * u
        up == IF 2 * r > d * u THEN q + 1
              ELSE IF 2 * r = d * u THEN q + (q % 2)
              ELSE q
    IN (IF n < 0 THEN 0 - 1 ELSE 1) * up * u

FAdd(a, b) == Fl(a + b, 1)
FSub(a, b) == Fl(a - b, 1)
\* a * weight, the weight given in units of 1/WScale
FMulWeight(a, wt) == Fl(a * wt, WScale)

\* np.exp(-k/8) in units of 1/WScale
ExpNegEighths(k) == IF k < Len(ExpTable) THEN ExpTable[k + 1] ELSE 0

(***************************************************************************)
(* _apply_anchor_adjustments                                               *)
(***************************************************************************)
MaxAnchors == 2

\* x grids of range 50 (sigma = 1), the inputs of the model
XGrids == {<<0, 1, 50>>, <<0, 2, 50>>}
\* ordinates: baseline samples and anchor y values
Vals == {0, 1, 10}
\* anchor x values
AnchorXs == {0, 1, 50}
AnchorSet == {<<ax, ay>> : ax \in AnchorXs, ay \in Vals}

SeqMax(xs) == CHOOSE m \in {xs[i] : i \in 1 .. Len(xs)} : \A i \in 1 .. Len(xs) : xs[i] <= m
SeqMin(xs) == CHOOSE m \in {xs[i] : i \in 1 .. Len(xs)} : \A i \in 1 .. Len(xs) : xs[i] >= m

\* np.argmin(np.abs(x_data - anchor_x)): the first index of the smallest distance
ClosestIdxLast(xs, ax) ==
    CHOOSE i \in 1 .. Len(xs) :
        /\ \A j \in 1 .. Len(xs) : Abs(xs[i] - ax) <= Abs(xs[j] - ax)
        /\ \A j \in (i + 1) .. Len(xs) : Abs(xs[j] - ax) # Abs(xs[i] - ax)

ClosestIdx(xs, ax) ==
    CHOOSE i \in 1 .. Len(xs) :
        /\ \A j \in 1 .. Len(xs) : Abs(xs[i] - ax) <= Abs(xs[j] - ax)
        /\ \A j \in 1 .. (i - 1) : Abs(xs[j] - ax) # Abs(xs[i] - ax)

\* weights = np.exp(-0.5 * (distances / sigma) ** 2) with sigma = data_range / 50.0,
\* for one distance d: -0.5 * (50 d / data_range)^2 = -(10000 d^2 / data_range^2) / 8
GaussWeight(d, data_range) == ExpNegEighths((10000 * d * d) \div (data_range * data_range))

\* adjusted_baseline = als_baseline.copy(): a new array object
NoCopy(b) == [als |-> b, adjusted |-> b, alias |-> TRUE]

CopyBaseline(b) == [als |-> b, adjusted |-> b, alias |-> FALSE]

\* adjustment = anchor_y - als_baseline[closest_idx]
AnchorOffsetFromAdjusted(st, ci, ay) == FSub(ay, st.adjusted[ci])

AnchorOffset(st, ci, ay) == FSub(ay, st.als[ci])

\* add_anchor: the y the first anchor is snapped to, the ALS baseline at the
\* sample nearest to x
SnapY(xs, b, x) == b[ClosestIdx(xs, x)]

\* One round of the loop over the anchors: adjusted_baseline += adjustment * weights,
\* in place; the array passed as als_baseline changes with it when it is the same object
OneAnchorWithoutOffset(xs, st, anchor) ==
    LET data_range == SeqMax(xs) - SeqMin(xs)
        closest_idx == ClosestIdx(xs, anchor[1])
        closest_x == xs[closest_idx]
        adjustment == anchor[2]
        new == [i \in 1 .. Len(xs) |->
                  FAdd(st.adjusted[i],
                       FMulWeight(adjustment, GaussWeight(Abs(xs[i] - closest_x), data_range)))]
    IN [als |-> IF st.alias THEN new ELSE st.als, adjusted |-> new, alias |-> st.alias]

OneAnchor(xs, st, anchor) ==
    LET data_range == SeqMax(xs) - SeqMin(xs)
        closest_idx == ClosestIdx(xs, anchor[1])
        closest_x == xs[closest_idx]
        adjustment == AnchorOffset(st, closest_idx, anchor[2])
        new == [i \in 1 .. Len(xs) |->
                  FAdd(st.adjusted[i],
                       FMulWeight(adjustment, GaussWeight(Abs(xs[i] - closest_x), data_range)))]
    IN [als |-> IF st.alias THEN new ELSE st.als, adjusted |-> new, alias |-> st.alias]

RECURSIVE ApplyFrom(_, _, _, _)
ApplyFrom(xs, st, ancs, k) ==
    IF k > Len(ancs) THEN st ELSE ApplyFrom(xs, OneAnchor(xs, st, ancs[k]), ancs, k + 1)

\* The value _apply_anchor_adjustments returns for a baseline and an anchor list
ApplyAnchorAdjustments(xs, b, ancs) == ApplyFrom(xs, CopyBaseline(b), ancs, 1).adjusted

AdjInit ==
    /\ adj_pc = "call"
    /\ x_data \in XGrids
    /\ baseline_arg \in [1 .. 3 -> Vals]
    /\ als_baseline = baseline_arg
    /\ adjusted_baseline = <<>>
    /\ adj_alias = FALSE
    /\ anchor_i = 0
    /\ anchors \in SeqsUpTo(AnchorSet, MaxAnchors)

AdjIdle ==
    /\ adj_pc = "idle"
    /\ x_data = <<>>
    /\ baseline_arg = <<>>
    /\ als_baseline = <<>>
    /\ adjusted_baseline = <<>>
    /\ adj_alias = FALSE
    /\ anchor_i = 0

\* lines 363-366: copy; with no anchors the copy is returned as it is
AdjustBegin ==
    /\ adj_pc = "call"
    /\ LET st == CopyBaseline(als_baseline)
       IN /\ als_baseline' = st.als
          /\ adjusted_baseline' = st.adjusted
          /\ adj_alias' = st.alias
    /\ anchor_i' = 1
    /\ adj_pc' = IF anchors = <<>> THEN "done" ELSE "loop"
    /\ UNCHANGED <<x_data, baseline_arg, anchors>>
    /\ UNCHANGED <<alsVars, tabVars, rmVars, normVars, codecVars, storeVars, winVars>>

\* lines 373-387: one anchor
AdjustAnchor ==
    /\ adj_pc = "loop"
    /\ anchor_i <= Len(anchors)
    /\ LET st == OneAnchor(x_data,
                           [als |-> als_baseline, adjusted |-> adjusted_baseline, alias |-> adj_alias],
                           anchors[anchor_i])
       IN /\ als_baseline' = st.als
          /\ adjusted_baseline' = st.adjusted
    /\ anchor_i' = anchor_i + 1
    /\ UNCHANGED <<adj_pc, x_data, baseline_arg, adj_alias, anchors>>
    /\ UNCHANGED <<alsVars, tabVars, rmVars, normVars, codecVars, storeVars, winVars>>

\* line 389: return adjusted_baseline
AdjustReturn ==
    /\ adj_pc = "loop"
    /\ anchor_i > Len(anchors)
    /\ adj_pc' = "done"
    /\ UNCHANGED <<x_data, baseline_arg, als_baseline, adjusted_baseline, adj_alias, anchor_i, anchors>>
    /\ UNCHANGED <<alsVars, tabVars, rmVars, normVars, codecVars, storeVars, winVars>>

AdjNext == AdjustBegin \/ AdjustAnchor \/ AdjustReturn

(***************************************************************************)
(* The .jws decoder and the .ylk storage (src/modules/file_converter.py)   *)
(***************************************************************************)
MaxPoints == 5
MaxChannels == 2

RECURSIVE Pow10(_)
Pow10(n) == IF n = 0 THEN 1 ELSE 10 * Pow10(n - 1)

\* A Python float as the decimal i + f / 10^9 with 0 <= f < 10^9, or nan
Dec(i, f) == [t |-> "float", i |-> i, f |-> f]
DecNaN == [t |-> "nan", i |-> 0, f |-> 0]
\* A Python int
PyInt(i) == [t |-> "int", i |-> i, f |-> 0]

DecAdd(a, b) ==
    IF a.t = "nan" \/ b.t = "nan" THEN DecNaN
    ELSE Dec(a.i + b.i + (a.f + b.f) \div Pow10(9), (a.f + b.f) % Pow10(9))

\* k * a for a line number k
RECURSIVE DecTimes(_, _)
DecTimes(k, a) == IF k = 0 THEN Dec(0, 0) ELSE DecAdd(a, DecTimes(k - 1, a))

\* round(a, ndigits): to the nearest multiple of 10^-ndigits, ties to even;
\* nan stays nan
Round(a, ndigits) ==
    IF a.t = "nan" THEN DecNaN
    ELSE LET step == Pow10(9 - ndigits)
             q == a.f \div step
             r == a.f % step
             up == 2 * r > step \/ (2 * r = step /\ q % 2 = 1)
             f == (IF up THEN q + 1 ELSE q) * step
         IN IF f = Pow10(9) THEN Dec(a.i + 1, 0) ELSE Dec(a.i, f)

DecLess(a, b) == a.i < b.i \/ (a.i = b.i /\ a.f < b.f)

\* min(x_data) and max(x_data) of a non-empty list without nan
ListMin(xs) == CHOOSE m \in {xs[j] : j \in 1 .. Len(xs)} : \A j \in 1 .. Len(xs) : ~DecLess(xs[j], m)
ListMax(xs) == CHOOSE m \in {xs[j] : j \in 1 .. Len(xs)} : \A j \in 1 .. Len(xs) : ~DecLess(m, xs[j])

\* round(a / 10) * 10, an int; ties to even
RoundToTens(a) ==
    LET q == a.i \div 10
        r == a.i % 10
        up == r > 5 \/ (r = 5 /\ a.f > 0) \/ (r = 5 /\ a.f = 0 /\ q % 2 = 1)
    IN PyInt((IF up THEN q + 1 ELSE q) * 10)

\* The headers and Y-Data streams the decoder is run on
XFirsts == {Dec(1000, 0), Dec(0, 500000000), DecNaN}
XIncrements == {Dec(2, 0), Dec(0 - 2, 0), Dec(0, 123456700)}
\* The float32 values of the Y-Data stream, repeated as often as the stream is long
YStream == <<Dec(0, 123456789), Dec(0, 500000000), DecNaN, Dec(0 - 1, 999999995), Dec(3, 0)>>
YDataValue(j) == YStream[(j % Len(YStream)) + 1]

\* A .jws file: is it an OLE container, its DataInfo stream (absent, cut short
\* or whole) with the header fields, and the number of float32 values in its
\* Y-Data stream (NoStream: no such stream)
NoStream == 0 - 1
YDataLengths(c, n) ==
    {NoStream} \cup {k \in 0 .. (MaxPoints * MaxChannels + 1) : k \in {c * n - 1, c * n, c * n + 1}}
JwsFiles ==
    UNION {{[ole |-> o, datainfo |-> d, channel_number |-> c, point_number |-> n,
             x_for_first_point |-> xf, x_increment |-> xi, ydata |-> yd] :
               o \in BOOLEAN, d \in {"absent", "truncated", "whole"},
               xf \in XFirsts, xi \in XIncrements, yd \in YDataLengths(c, n)} :
           c \in 0 .. MaxChannels, n \in 0 .. MaxPoints}

\* values[x : x + point_number] for x in range(0, len(values), point_number)
Chunks(nvalues, n) ==
    [k \in 1 .. ((nvalues + n - 1) \div n) |->
        [j \in 1 .. (IF k * n <= nvalues THEN n ELSE nvalues - (k - 1) * n) |->
            YDataValue((k - 1) * n + j - 1)]]

\* What makes convert_jws_to_ylk_direct raise inside its try block
DecodeFails(file) ==
    \/ ~file.ole
    \/ file.datainfo # "whole"
    \/ file.ydata = NoStream
    \/ file.ydata # file.point_number * file.channel_number
    \/ file.point_number = 0
    \/ file.x_for_first_point.t = "nan"
    \/ file.x_increment.t = "nan"

\* x_data and y_data of lines 113-122; mutant first
DecodedXAccumulated(file) ==
    [line \in 1 .. file.point_number |->
        IF line = 1 THEN Round(file.x_for_first_point, 6)
        ELSE Round(DecAdd(file.x_for_first_point,
                          DecTimes(line - 1, Round(file.x_increment, 6))), 6)]

DecodedX(file) ==
    [line \in 1 .. file.point_number |->
        Round(DecAdd(file.x_for_first_point, DecTimes(line - 1, file.x_increment)), 6)]

DecodedY(file) ==
    LET chunks == Chunks(file.ydata, file.point_number)
    IN [line \in 1 .. file.point_number |->
           IF chunks # <<>> THEN Round(chunks[1][line], 8) ELSE Round(Dec(0, 0), 8)]

\* A record (the dict of a .ylk file) and the values of its lists
EmptyList == <<>>
NoRecord ==
    [loaded |-> FALSE, range |-> <<PyInt(0), PyInt(0)>>,
     raw_data |-> [x |-> EmptyList, y |-> EmptyList],
     baseline |-> [x |-> EmptyList, y |-> EmptyList],
     points |-> PyInt(0), channels |-> PyInt(0), modified |-> FALSE]

\* the dict of lines 131-143
ConvertedRecord(file) ==
    [loaded |-> TRUE,
     range |-> <<RoundToTens(ListMin(DecodedX(file))), RoundToTens(ListMax(DecodedX(file)))>>,
     raw_data |-> [x |-> DecodedX(file), y |-> DecodedY(file)],
     baseline |-> [x |-> EmptyList, y |-> EmptyList],
     points |-> PyInt(file.point_number), channels |-> PyInt(file.channel_number),
     modified |-> FALSE]

\* json.dump of one number: an int as its digits, a float by repr, which prints
\* the decimal in full, nan as NaN; mutant (six decimals) first
DumpNumberSixDecimals(v) ==
    IF v.t = "int" THEN [form |-> "digits", whole |-> v.i, frac |-> 0]
    ELSE IF v.t = "nan" THEN [form |-> "NaN", whole |-> 0, frac |-> 0]
    ELSE [form |-> "decimal", whole |-> Round(v, 6).i, frac |-> Round(v, 6).f]

DumpNumber(v) ==
    IF v.t = "int" THEN [form |-> "digits", whole |-> v.i, frac |-> 0]
    ELSE IF v.t = "nan" THEN [form |-> "NaN", whole |-> 0, frac |-> 0]
    ELSE [form |-> "decimal", whole |-> v.i, frac |-> v.f]

\* json.load of one number
LoadNumber(text) ==
    IF text.form = "digits" THEN PyInt(text.whole)
    ELSE IF text.form = "NaN" THEN DecNaN
    ELSE Dec(text.whole, text.frac)

DumpList(xs) == [j \in 1 .. Len(xs) |-> DumpNumber(xs[j])]
LoadList(ts) == [j \in 1 .. Len(ts) |-> LoadNumber(ts[j])]

\* json.dump(data, f): the text of the file
Dump(rec) ==
    [written |-> TRUE,
     range |-> DumpList(rec.range),
     raw_data |-> [x |-> DumpList(rec.raw_data.x), y |-> DumpList(rec.raw_data.y)],
     baseline |-> [x |-> DumpList(rec.baseline.x), y |-> DumpList(rec.baseline.y)],
     points |-> DumpNumber(rec.points), channels |-> DumpNumber(rec.channels),
     modified |-> rec.modified]

NoFile == [Dump(NoRecord) EXCEPT !.written = FALSE]

\* json.load(f)
Load(text) ==
    [loaded |-> TRUE,
     range |-> LoadList(text.range),
     raw_data |-> [x |-> LoadList(text.raw_data.x), y |-> LoadList(text.raw_data.y)],
     baseline |-> [x |-> LoadList(text.baseline.x), y |-> LoadList(text.baseline.y)],
     points |-> LoadNumber(text.points), channels |-> LoadNumber(text.channels),
     modified |-> text.modified]

\* The y values of a computed baseline: floats printed with up to nine decimals
BaselineValue(yv) == DecAdd(yv, Dec(0, 1))

CodecInit ==
    /\ codec_pc = "convert"
    /\ jws \in JwsFiles
    /\ ylk_file = NoFile
    /\ ylk_data = NoRecord
    /\ reloaded = NoRecord

CodecIdle ==
    /\ codec_pc = "idle"
    /\ jws = [ole |-> FALSE, datainfo |-> "absent", channel_number |-> 0, point_number |-> 0,
              x_for_first_point |-> Dec(0, 0), x_increment |-> Dec(0, 0), ydata |-> NoStream]
    /\ ylk_file = NoFile
    /\ ylk_data = NoRecord
    /\ reloaded = NoRecord

\* convert_jws_to_ylk_direct: True with the file written, or False; nothing is
\* raised to the caller
ConvertJws ==
    /\ codec_pc = "convert"
    /\ \E can_write \in BOOLEAN :
          IF DecodeFails(jws) \/ ~can_write
          THEN codec_pc' = "convert returned False" /\ UNCHANGED ylk_file
          ELSE codec_pc' = "convert returned True" /\ ylk_file' = Dump(ConvertedRecord(jws))
    /\ UNCHANGED <<jws, ylk_data, reloaded>>
    /\ UNCHANGED <<alsVars, adjVars, anchors, tabVars, rmVars, normVars, storeVars, winVars>>

\* load_ylk_file of the converted file
LoadConverted ==
    /\ codec_pc = "convert returned True"
    /\ ylk_data' = Load(ylk_file)
    /\ codec_pc' = "loaded"
    /\ UNCHANGED <<jws, ylk_file, reloaded>>
    /\ UNCHANGED <<alsVars, adjVars, anchors, tabVars, rmVars, normVars, storeVars, winVars>>

\* A baseline is computed for the record, or not, and save_ylk_file is called
SaveYlk ==
    /\ codec_pc = "loaded"
    /\ \E with_baseline \in BOOLEAN, can_write \in BOOLEAN :
          LET data == [ylk_data EXCEPT
                          !.baseline = IF with_baseline
                                       THEN [x |-> ylk_data.raw_data.x,
                                             y |-> [j \in 1 .. Len(ylk_data.raw_data.y) |->
                                                      BaselineValue(ylk_data.raw_data.y[j])]]
                                       ELSE ylk_data.baseline,
                          !.modified = TRUE]
          IN /\ ylk_data' = data
             /\ IF can_write
                THEN ylk_file' = Dump(data) /\ codec_pc' = "save returned True"
                ELSE UNCHANGED ylk_file /\ codec_pc' = "save returned False"
    /\ UNCHANGED <<jws, reloaded>>
    /\ UNCHANGED <<alsVars, adjVars, anchors, tabVars, rmVars, normVars, storeVars, winVars>>

\* load_ylk_file of the saved file
LoadSaved ==
    /\ codec_pc = "save returned True"
    /\ reloaded' = Load(ylk_file)
    /\ codec_pc' = "reloaded"
    /\ UNCHANGED <<jws, ylk_file, ylk_data>>
    /\ UNCHANGED <<alsVars, adjVars, anchors, tabVars, rmVars, normVars, storeVars, winVars>>

CodecNext == ConvertJws \/ LoadConverted \/ SaveYlk \/ LoadSaved

(***************************************************************************)
(* Folders, selection and saving in the analyzer (src/main.py)             *)
(***************************************************************************)
MaxSessions == 2
MaxSelected == 3

FolderPaths == {"A", "B"}
FileNames == {"s", "t"}
\* processed_files.sort() on the names used here
NameOrder == <<"s", "t">>
Slots == FolderPaths \X FileNames

\* The .jws files a source folder may hold
GoodJws ==
    [ole |-> TRUE, datainfo |-> "whole", channel_number |-> 1, point_number |-> 12,
     x_for_first_point |-> Dec(1000, 0), x_increment |-> Dec(2, 0), ydata |-> 12]
JwsOfKind(kind) ==
    IF kind = "missing stream" THEN [GoodJws EXCEPT !.ydata = NoStream]
    ELSE IF kind = "truncated header" THEN [GoodJws EXCEPT !.datainfo = "truncated"]
    ELSE IF kind = "short Y-Data" THEN [GoodJws EXCEPT !.ydata = 11]
    ELSE GoodJws
JwsKinds == {"good", "missing stream", "truncated header", "short Y-Data"}

\* What the two source folders hold: A has s.jws and perhaps t.jws, B perhaps s.jws
Layouts ==
    {[sl \in Slots |->
         IF sl = <<"A", "s">> THEN "good"
         ELSE IF sl = <<"A", "t">> THEN at
         ELSE IF sl = <<"B", "s">> THEN bs
         ELSE "absent"] :
       at \in JwsKinds \cup {"absent"}, bs \in {"good", "absent"}}

\* A .ylk file and a record in memory.  raw names the .jws file the raw_data was
\* decoded from; a baseline is empty or computed on that raw_data.
AbsentYlk == [present |-> FALSE, raw |-> <<"", "">>, baseline |-> "empty", params |-> FALSE]
\* the file convert_jws_to_ylk_direct writes for the .jws file of slot sl
FreshYlk(sl) == [present |-> TRUE, raw |-> sl, baseline |-> "empty", params |-> FALSE]
NoMetadata == [params |-> FALSE, modified |-> FALSE]
NoTab == [open |-> FALSE, filename |-> "", raw |-> <<"", "">>, baseline |-> "empty",
          meta |-> <<"", "">>, opened_for |-> <<"", "">>]

\* ylk_to_dataframe: the wavenumber and absorbance columns of raw_data
YlkToDataframe(rec) == [raw |-> rec.raw]

\* The loop over os.listdir(folder_path): every .jws file is converted, the
\* .ylk of a file that fails to decode is left as it was; mutant first
RECURSIVE ConvertAllUntilFailure(_, _, _)
ConvertAllUntilFailure(f, listing, ylk) ==
    IF listing = <<>> THEN ylk
    ELSE LET sl == <<f, Head(listing)>>
         IN IF DecodeFails(JwsOfKind(jws_files[sl]))
            THEN ylk
            ELSE ConvertAllUntilFailure(f, Tail(listing), [ylk EXCEPT ![sl] = FreshYlk(sl)])

RECURSIVE ConvertAll(_, _, _)
ConvertAll(f, listing, ylk) ==
    IF listing = <<>> THEN ylk
    ELSE LET sl == <<f, Head(listing)>>
         IN IF DecodeFails(JwsOfKind(jws_files[sl]))
            THEN ConvertAll(f, Tail(listing), ylk)
            ELSE ConvertAll(f, Tail(listing), [ylk EXCEPT ![sl] = FreshYlk(sl)])

\* The orders os.listdir may return the .jws files of folder f in
Listings(f) ==
    LET present == {n \in FileNames : jws_files[<<f, n>>] # "absent"}
    IN {l \in SeqsUpTo(present, Cardinality(FileNames)) :
           Len(l) = Cardinality(present) /\ \A n \in present : \E j \in 1 .. Len(l) : l[j] = n}

\* The names of the .ylk files of folder f, sorted
SortedYlk(f, ylk) == SelectSeq(NameOrder, LAMBDA n : ylk[<<f, n>>].present)

IsLoaded(f) == \E j \in 1 .. Len(folders) : folders[j].path = f
FolderIndex(f) == CHOOSE j \in 1 .. Len(folders) : folders[j].path = f
\* the position of name n in a files list, 0 when it is not there
FileIndex(files, n) ==
    IF \E j \in 1 .. Len(files) : files[j] = n
    THEN CHOOSE j \in 1 .. Len(files) : files[j] = n
    ELSE 0

StoreInit ==
    /\ jws_files \in Layouts
    /\ ylk_files = [sl \in Slots |-> AbsentYlk]
    /\ folders = <<>>
    /\ metadata = [sl \in Slots |-> NoMetadata]
    /\ selected_files = <<>>
    /\ selected_data = <<>>
    /\ visible_files = <<>>
    /\ selected_listbox = <<>>
    /\ baseline_tab = NoTab
    /\ session = 1
    /\ box = "none"

StoreIdle ==
    /\ jws_files = [sl \in Slots |-> "absent"]
    /\ ylk_files = [sl \in Slots |-> AbsentYlk]
    /\ folders = <<>>
    /\ metadata = [sl \in Slots |-> NoMetadata]
    /\ selected_files = <<>>
    /\ selected_data = <<>>
    /\ visible_files = <<>>
    /\ selected_listbox = <<>>
    /\ baseline_tab = NoTab
    /\ session = 0
    /\ box = "none"

StoreFrame == UNCHANGED <<alsVars, adjVars, anchors, tabVars, rmVars, normVars, codecVars, winVars>>

\* process_folder(folder_path) for a folder that is not loaded yet
ProcessFolder(f) ==
    /\ session >= 1
    /\ ~IsLoaded(f)
    /\ \E listing \in Listings(f) :
          LET ylk == ConvertAll(f, listing, ylk_files)
              files == SortedYlk(f, ylk)
          IN /\ ylk_files' = ylk
             /\ folders' = Append(folders,
                              [path |-> f, files |-> files,
                               ylk_data |-> [j \in 1 .. Len(files) |->
                                               [raw |-> ylk[<<f, files[j]>>].raw,
                                                baseline |-> ylk[<<f, files[j]>>].baseline,
                                                meta |-> <<f, files[j]>>]]])
             /\ metadata' = [sl \in Slots |->
                               IF sl[1] = f /\ ylk[sl].present
                               THEN [params |-> ylk[sl].params, modified |-> ylk[sl].params]
                               ELSE metadata[sl]]
    /\ box' = "none"
    /\ UNCHANGED <<jws_files, selected_files, selected_data, visible_files,
               selected_listbox, baseline_tab, session>>
    /\ StoreFrame

ProcessSomeFolder == \E f \in FolderPaths : ProcessFolder(f)

\* The files the tree shows: those of the loaded folders that are not selected
InTree(sl) ==
    /\ IsLoaded(sl[1])
    /\ FileIndex(folders[FolderIndex(sl[1])].files, sl[2]) # 0
    /\ \A j \in 1 .. Len(selected_files) : selected_files[j] # sl

\* on_file_double_click on a file of the tree
SelectFile ==
    /\ session >= 1
    /\ \E sl \in Slots :
          /\ IsLoaded(sl[1])
          /\ FileIndex(folders[FolderIndex(sl[1])].files, sl[2]) # 0
          /\ \A j \in 1 .. Len(selected_files) : selected_files[j] # sl
          /\ Len(selected_files) < MaxSelected
          /\ selected_files' = Append(selected_files, sl)
          /\ visible_files' = Append(visible_files, TRUE)
          /\ LET fd == folders[FolderIndex(sl[1])]
             IN selected_data' =
                   Append(selected_data, YlkToDataframe(fd.ylk_data[FileIndex(fd.files, sl[2])]))
          /\ selected_listbox' = Append(selected_listbox, sl)
    /\ box' = "none"
    /\ UNCHANGED <<jws_files, ylk_files, folders, metadata, baseline_tab, session>>
    /\ StoreFrame

\* The first selected file whose name is the name of item k; 0 when none is loaded
FirstSelectedNamed(n) ==
    IF \E j \in 1 .. Len(selected_files) : selected_files[j][2] = n
    THEN CHOOSE j \in 1 .. Len(selected_files) :
            /\ selected_files[j][2] = n
            /\ \A i \in 1 .. (j - 1) : selected_files[i][2] # n
    ELSE 0

\* create_baseline_for_file(item.text()) for item k of the selected list; the
\* item text is "name (folder)" and only the name is used
CreateBaselineForFile ==
    /\ session >= 1
    /\ ~baseline_tab.open
    /\ \E k \in 1 .. Len(selected_files) :
          LET actual_filename == selected_files[k][2]
              sl == selected_files[FirstSelectedNamed(actual_filename)]
              fd == folders[FolderIndex(sl[1])]
              rec == fd.ylk_data[FileIndex(fd.files, sl[2])]
          IN baseline_tab' = [open |-> TRUE, filename |-> actual_filename, raw |-> rec.raw,
                              baseline |-> rec.baseline, meta |-> rec.meta, opened_for |-> sl]
    /\ box' = "none"
    /\ UNCHANGED <<jws_files, ylk_files, folders, metadata, selected_files, selected_data, visible_files,
               selected_listbox,
                   session>>
    /\ StoreFrame

\* The first folder, in the order the folders were added, that lists the name
FirstFolderListing(n) ==
    IF \E j \in 1 .. Len(folders) : FileIndex(folders[j].files, n) # 0
    THEN CHOOSE j \in 1 .. Len(folders) :
            /\ FileIndex(folders[j].files, n) # 0
            /\ \A i \in 1 .. (j - 1) : FileIndex(folders[i].files, n) = 0
    ELSE 0

\* save_baseline of the open tab, with parameters and data the solver accepts
StoreSaveBaseline ==
    /\ baseline_tab.open
    /\ LET n == baseline_tab.filename
           g == FirstFolderListing(n)
           saved == [raw |-> baseline_tab.raw, baseline |-> "computed", meta |-> baseline_tab.meta]
           meta1 == [metadata EXCEPT ![baseline_tab.meta].params = TRUE]
           meta2 == [meta1 EXCEPT ![baseline_tab.meta].modified = TRUE]
       IN IF g = 0
          THEN /\ box' = "Could not find file to save"
               /\ metadata' = meta1
               /\ baseline_tab' = [baseline_tab EXCEPT !.baseline = "computed"]
               /\ UNCHANGED <<ylk_files, folders, selected_data>>
          ELSE \E written \in BOOLEAN :
                  /\ metadata' = meta2
                  /\ baseline_tab' = NoTab
                  /\ IF written
                     THEN /\ box' = "Success"
                          /\ ylk_files' =
                                [ylk_files EXCEPT ![<<folders[g].path, n>>] =
                                    [present |-> TRUE, raw |-> saved.raw,
                                     baseline |-> "computed", params |-> TRUE]]
                          /\ folders' =
                                [folders EXCEPT ![g].ylk_data[FileIndex(folders[g].files, n)] =
                                    saved]
                          /\ selected_data' =
                                IF FirstSelectedNamed(n) = 0 THEN selected_data
                                ELSE [selected_data EXCEPT ![FirstSelectedNamed(n)] =
                                         YlkToDataframe(saved)]
                     ELSE /\ box' = "none"
                          /\ UNCHANGED <<ylk_files, folders, selected_data>>
    /\ UNCHANGED <<jws_files, selected_files, visible_files, selected_listbox, session>>
    /\ StoreFrame

\* close_tab from the "Close Tab" button
StoreCloseTab ==
    /\ baseline_tab.open
    /\ baseline_tab' = NoTab
    /\ box' = "none"
    /\ UNCHANGED <<jws_files, ylk_files, folders, metadata, selected_files, selected_data, visible_files,
               selected_listbox,
                   session>>
    /\ StoreFrame

\* The program is closed and started again: FTIRAnalyzer.__init__
NewSession ==
    /\ session >= 1
    /\ session < MaxSessions
    /\ session' = session + 1
    /\ folders' = <<>>
    /\ metadata' = [sl \in Slots |-> NoMetadata]
    /\ selected_files' = <<>>
    /\ selected_data' = <<>>
    /\ visible_files' = <<>>
    /\ selected_listbox' = <<>>
    /\ baseline_tab' = NoTab
    /\ box' = "none"
    /\ UNCHANGED <<jws_files, ylk_files>>
    /\ StoreFrame

\* os.path.basename(folder_path), the text of a folder item of the tree
FolderName(f) == IF f = "A" THEN "a" ELSE IF f = "B" THEN "b" ELSE f

\* self.selected_files.index(key), from 1; 0 when key is not in the list
SelectedIndex(key) ==
    IF \E j \in 1 .. Len(selected_files) : selected_files[j] = key
    THEN CHOOSE j \in 1 .. Len(selected_files) :
            /\ selected_files[j] = key
            /\ \A i \in 1 .. (j - 1) : selected_files[i] # key
    ELSE 0

\* list.pop(idx) and QListWidget.takeItem(row), idx and row from 1
PopAt(xs, idx) == [i \in 1 .. (Len(xs) - 1) |-> IF i < idx THEN xs[i] ELSE xs[i + 1]]

\* add_to_selected with one file item of the tree selected: the key is built
\* from the text of the folder item
AddToSelected ==
    /\ session >= 1
    /\ \E sl \in Slots :
          /\ InTree(sl)
          /\ LET folder_path == FolderName(sl[1])
                 file_key == <<folder_path, sl[2]>>
             IN IF SelectedIndex(file_key) # 0
                THEN UNCHANGED <<selected_files, visible_files, selected_data, selected_listbox>>
                ELSE /\ Len(selected_files) < MaxSelected
                     /\ selected_files' = Append(selected_files, file_key)
                     /\ visible_files' = Append(visible_files, TRUE)
                     /\ IF IsLoaded(folder_path)
                           /\ FileIndex(folders[FolderIndex(folder_path)].files, sl[2]) # 0
                        THEN LET fd == folders[FolderIndex(folder_path)]
                             IN /\ selected_data' =
                                      Append(selected_data,
                                             YlkToDataframe(fd.ylk_data[FileIndex(fd.files, sl[2])]))
                                /\ selected_listbox' = Append(selected_listbox, file_key)
                        ELSE UNCHANGED <<selected_data, selected_listbox>>
    /\ box' = "none"
    /\ UNCHANGED <<jws_files, ylk_files, folders, metadata, baseline_tab, session>>
    /\ StoreFrame

\* on_selected_double_click on a row of the selected list box; pop raises
\* IndexError when selected_data is shorter than the index
SelectedDoubleClick ==
    /\ session >= 1
    /\ \E row \in 1 .. Len(selected_listbox) :
          LET file_key == selected_listbox[row]
              file_index == SelectedIndex(file_key)
          IN /\ selected_listbox' = PopAt(selected_listbox, row)
             /\ IF file_index = 0
                THEN /\ UNCHANGED <<selected_files, selected_data, visible_files>>
                     /\ box' = "none"
                ELSE /\ selected_files' = PopAt(selected_files, file_index)
                     /\ IF file_index > Len(selected_data)
                        THEN /\ UNCHANGED <<selected_data, visible_files>>
                             /\ box' = "IndexError"
                        ELSE /\ selected_data' = PopAt(selected_data, file_index)
                             /\ visible_files' = IF file_index <= Len(visible_files)
                                                 THEN PopAt(visible_files, file_index)
                                                 ELSE visible_files
                             /\ box' = "none"
    /\ UNCHANGED <<jws_files, ylk_files, folders, metadata, baseline_tab, session>>
    /\ StoreFrame

\* The text of a list box item: f"{filename} ({os.path.basename(folder_path)})"
DisplayName(file_key) == <<"text", file_key[2], FolderName(file_key[1])>>

\* remove_from_selected with one row of the list box selected: the item's text
\* is looked up in selected_files, whose entries are (folder_path, filename) pairs
RemoveFromSelected ==
    /\ session >= 1
    /\ \E row \in 1 .. Len(selected_listbox) :
          LET filename == DisplayName(selected_listbox[row])
              found == \E j \in 1 .. Len(selected_files) :
                          <<"key", selected_files[j][1], selected_files[j][2]>> = filename
              file_index == CHOOSE j \in 1 .. Len(selected_files) :
                               <<"key", selected_files[j][1], selected_files[j][2]>> = filename
          IN /\ selected_listbox' = PopAt(selected_listbox, row)
             /\ IF found
                THEN /\ selected_files' = PopAt(selected_files, file_index)
                     /\ selected_data' = PopAt(selected_data, file_index)
                     /\ visible_files' = IF file_index <= Len(visible_files)
                                         THEN PopAt(visible_files, file_index)
                                         ELSE visible_files
                ELSE UNCHANGED <<selected_files, selected_data, visible_files>>
    /\ box' = "none"
    /\ UNCHANGED <<jws_files, ylk_files, folders, metadata, baseline_tab, session>>
    /\ StoreFrame

\* clear_selected
ClearSelected ==
    /\ session >= 1
    /\ selected_listbox' = <<>>
    /\ selected_files' = <<>>
    /\ selected_data' = <<>>
    /\ visible_files' = <<>>
    /\ box' = "none"
    /\ UNCHANGED <<jws_files, ylk_files, folders, metadata, baseline_tab, session>>
    /\ StoreFrame

SelectNext ==
    \/ ProcessSomeFolder
    \/ SelectFile
    \/ AddToSelected
    \/ SelectedDoubleClick
    \/ RemoveFromSelected
    \/ ClearSelected

StoreNext ==
    \/ ProcessSomeFolder
    \/ SelectFile
    \/ CreateBaselineForFile
    \/ StoreSaveBaseline
    \/ StoreCloseTab
    \/ NewSession

(***************************************************************************)
(* preprocess_data (src/modules/data_processing.py)                        *)
(***************************************************************************)
MaxNormLen == 3
AbsorbanceVals == {0, 1, 3}

\* np.min and np.max of a non-empty array
ArrayMin(a) == CHOOSE m \in {a[i] : i \in 1 .. Len(a)} : \A i \in 1 .. Len(a) : a[i] >= m
ArrayMax(a) == CHOOSE m \in {a[i] : i \in 1 .. Len(a)} : \A i \in 1 .. Len(a) : a[i] <= m

\* n / d on float arrays: 0/0 is nan (numpy warns and goes on), n/0 is inf
ArrayDivide(n, d) ==
    IF d # 0 THEN Q(n, d)
    ELSE IF n = 0 THEN QNaN
    ELSE [k |-> "inf", n |-> n, d |-> 1]

\* (absorbance - np.min(absorbance)) / (np.max(absorbance) - np.min(absorbance))
Normalize(a) ==
    [i \in 1 .. Len(a) |-> ArrayDivide(a[i] - ArrayMin(a), ArrayMax(a) - ArrayMin(a))]

NormInit ==
    /\ norm_pc = "call"
    /\ absorbance \in SeqsUpTo(AbsorbanceVals, MaxNormLen)
    /\ normalize \in BOOLEAN
    /\ norm_result = [raised |-> FALSE, absorbance |-> <<>>]

NormIdle ==
    /\ norm_pc = "idle"
    /\ absorbance = <<>>
    /\ normalize = FALSE
    /\ norm_result = [raised |-> FALSE, absorbance |-> <<>>]

\* preprocess_data(df, normalize): np.min of an empty array raises ValueError
PreprocessData ==
    /\ norm_pc = "call"
    /\ norm_pc' = "done"
    /\ norm_result' =
          IF ~normalize
          THEN [raised |-> FALSE, absorbance |-> [i \in 1 .. Len(absorbance) |-> Q(absorbance[i], 1)]]
          ELSE IF absorbance = <<>>
          THEN [raised |-> TRUE, absorbance |-> <<>>]
          ELSE [raised |-> FALSE, absorbance |-> Normalize(absorbance)]
    /\ UNCHANGED <<absorbance, normalize>>
    /\ UNCHANGED <<alsVars, adjVars, anchors, tabVars, rmVars, codecVars, storeVars, winVars>>

(***************************************************************************)
(* The baseline tab (BaselineCreationTab)                                  *)
(***************************************************************************)
MaxTabAnchors == 2
\* Pixels per data unit of the display transform ax.transData
PxPerX == 6
PxPerY == 6

None == 0 - 1

Min(a, b) == IF a < b THEN a ELSE b
Max(a, b) == IF a > b THEN a ELSE b

\* A text field as float() reads it: a number, or a text float() rejects
BadText == [k |-> "text", v |-> 0]
BadTextP == [k |-> "text", n |-> 0, d |-> 1]
LambdaTexts == {F(100000), F(0), NaN}
PTexts == {BadTextP, Q(1, 100)}

\* The shapes of raw_data the sessions run on: x in [0, 50] and y in [0, 10]
RawData(nx, ny) ==
    [nx |-> nx, ny |-> ny, xmin |-> 0, xmax |-> 50, ymin |-> 0, ymax |-> 10, y |-> "original"]

\* baseline_params in a record's metadata; absent until a baseline is saved
NoParams ==
    [present |-> FALSE, method |-> "", lambda |-> F(0), p |-> Q(0, 1), smooth |-> FALSE,
     has_anchors |-> FALSE, anchors |-> <<>>]
\* the "baseline" entry of a record: x and y arrays, described by how they were made
EmptyBaseline ==
    [x |-> <<>>, nx |-> 0, ny |-> 0, input |-> "none", lambda |-> F(0), p |-> Q(0, 1),
     smooth |-> FALSE, anchors |-> <<>>]
\* raw_data["x"]: rw.nx samples spread over [xmin, xmax]
RawX(rw) ==
    [i \in 1 .. rw.nx |->
        rw.xmin + ((i - 1) * (rw.xmax - rw.xmin)) \div (IF rw.nx > 1 THEN rw.nx - 1 ELSE 1)]
\* np.array(values).tolist(): the same numbers in a new list
ArrayToList(xs) == [i \in 1 .. Len(xs) |-> xs[i]]
\* get_baseline_with_raw, step 1: the samples handed to baseline_als are the
\* caller's samples, passed through savgol_filter when smooth is set (the
\* window is never below 5)
AlsInput(rw, par) == IF par.smooth THEN "smoothed" ELSE rw.y
\* The record's samples after the call: the callers hand over an array built
\* from the record's list, np.array(absorbance, dtype=float) copies it again
\* and savgol_filter returns a new array
AbsorbanceSmoothedInPlace(rw, par) == [rw EXCEPT !.y = AlsInput(rw, par)]

AbsorbanceAfterCall(rw, par) == rw

\* baseline = {"x": x_data.tolist(), "y": baseline_values.tolist()}
ComputedBaselineOnInnerGrid(rw, par, ancs) ==
    [x |-> Tail(ArrayToList(RawX(rw))), nx |-> rw.nx - 1, ny |-> rw.ny - 1,
     input |-> AlsInput(rw, par),
     lambda |-> par.lam, p |-> par.p, smooth |-> par.smooth, anchors |-> ancs]

ComputedBaseline(rw, par, ancs) ==
    [x |-> ArrayToList(RawX(rw)), nx |-> rw.nx, ny |-> rw.ny, input |-> AlsInput(rw, par),
     lambda |-> par.lam, p |-> par.p, smooth |-> par.smooth, anchors |-> ancs]
NoMeta == [params |-> NoParams, modified |-> "absent"]

\* Where the session starts: the shape of the raw data, what an earlier save
\* left in the record, and whether the tab has a parent analyzer
SavedParams ==
    [present |-> TRUE, method |-> "als_with_anchors", lambda |-> F(1234567), p |-> Q(1, 100),
     smooth |-> TRUE, has_anchors |-> TRUE, anchors |-> <<<<1, 0>>>>]
Scenarios ==
    {[raw |-> RawData(12, 12), params |-> NoParams, has_meta |-> TRUE, parent |-> TRUE],
     [raw |-> RawData(12, 12), params |-> SavedParams, has_meta |-> TRUE, parent |-> TRUE],
     [raw |-> RawData(12, 12), params |-> NoParams, has_meta |-> FALSE, parent |-> TRUE],
     [raw |-> RawData(0, 0), params |-> NoParams, has_meta |-> TRUE, parent |-> TRUE],
     [raw |-> RawData(12, 11), params |-> NoParams, has_meta |-> TRUE, parent |-> TRUE],
     [raw |-> RawData(3, 3), params |-> NoParams, has_meta |-> TRUE, parent |-> TRUE]}

\* Inputs of the events
MouseXs == {0, 2}
MouseYs == {0, 12}
AddXs == {0, 1}
AddYs == {0}
SnapYs == {1}
Keys == {"delete", "backspace", "escape", "a"}

\* get_parameters
\* f"{existing_lambda:g}": six significant digits, ties to even
RECURSIVE UnitOfSixDigits(_, _)
UnitOfSixDigits(v, unit) ==
    IF v < 1000000 * unit THEN unit ELSE UnitOfSixDigits(v, 10 * unit)

FormatG(l) ==
    IF l.k # "fin" \/ l.v < 0 THEN l
    ELSE LET unit == UnitOfSixDigits(l.v, 1)
             q == l.v \div unit
             r == l.v % unit
         IN IF 2 * r > unit \/ (2 * r = unit /\ q % 2 = 1)
            THEN F((q + 1) * unit)
            ELSE F(q * unit)

GetParameters(lt, pt, sm) ==
    IF lt.k = "text" \/ pt.k = "text"
    THEN [lam |-> F(100000), p |-> Q(1, 100), smooth |-> FALSE]
    ELSE [lam |-> lt, p |-> pt, smooth |-> sm]

\* window_length of the smoothing pre-pass of get_baseline_with_raw
WindowLengthNotMadeOdd(n) == Min(51, IF n > 50 THEN n \div 10 ELSE 5)

WindowLength(n) ==
    LET wl == Min(51, IF n > 50 THEN n \div 10 ELSE 5)
    IN IF wl % 2 = 0 THEN wl + 1 ELSE wl

\* window_length of the smoothing pre-pass of baseline_correction
WindowLengthOfCorrection(n) ==
    LET wl == Min(51, IF n > 50 THEN n \div 10 ELSE 5)
    IN IF wl % 2 = 0 THEN wl + 1 ELSE wl

(***************************************************************************)
(* The smoothing pre-pass (src/modules/baseline.py)                        *)
(***************************************************************************)
MaxSignalLen == 600

NoSavgol == [called |-> FALSE, window_length |-> 0, polyorder |-> 0]

WinInit ==
    /\ win_pc = "call"
    /\ caller \in {"get_baseline_with_raw", "baseline_correction"}
    /\ signal_len \in 1 .. MaxSignalLen
    /\ savgol = NoSavgol

WinIdle ==
    /\ win_pc = "idle"
    /\ caller = "none"
    /\ signal_len = 0
    /\ savgol = NoSavgol

\* if smooth: ... savgol_filter(absorbance, window_length=window_length, polyorder=3)
Smooth ==
    /\ win_pc = "call"
    /\ LET window_length == IF caller = "baseline_correction"
                            THEN WindowLengthOfCorrection(signal_len)
                            ELSE WindowLength(signal_len)
       IN savgol' = IF window_length >= 5
                    THEN [called |-> TRUE, window_length |-> window_length, polyorder |-> 3]
                    ELSE NoSavgol
    /\ win_pc' = "done"
    /\ UNCHANGED <<caller, signal_len>>
    /\ UNCHANGED <<alsVars, adjVars, anchors, tabVars, rmVars, normVars, codecVars, storeVars>>

\* get_baseline_with_raw(..., method="als") raises: savgol_filter refuses a
\* window longer than the signal, baseline_als refuses its input
BaselineRaises(rw, par) ==
    \/ par.smooth /\ WindowLength(rw.ny) >= 5 /\ WindowLength(rw.ny) > rw.ny
    \/ Rejects([i \in 1 .. rw.ny |-> F(0)], par.lam, par.p)

\* Whether the baseline returned by a call that does not raise is finite: a nan or
\* inf lam passes `lam <= 0` and makes Z = W + lam * D.dot(D.T) non-finite, and
\* spsolve returns nan without raising
AlsBaselineFinite(rw, par) == IsFinite(par.lam)

\* The limits update_preview captures at the first render
InitialLimits(rw) ==
    LET x_padding == ((rw.xmax - rw.xmin) * 2) \div 100
        y_padding == ((rw.ymax - rw.ymin) * 10) \div 100
    IN [set |-> TRUE,
        xlim |-> <<rw.xmin - x_padding, rw.xmax + x_padding>>,
        ylim |-> <<rw.ymin - y_padding, rw.ymax + y_padding>>]
NoLimits == [set |-> FALSE, xlim |-> <<0, 1>>, ylim |-> <<0, 1>>]

\* The tab's mutable attributes, as one value
Tab ==
    [anchors |-> anchors, selected_anchor |-> selected_anchor, dragging |-> dragging,
     fixed_lim |-> fixed_lim, shown |-> shown, raw |-> raw]
\* The widgets update_preview reads
Ui == [lt |-> lambda_edit, pt |-> p_edit, sm |-> smooth_checkbox, toggled |-> view_toggle]

SetTab(t) ==
    \E u \in {t} :
        /\ anchors' = u.anchors
        /\ selected_anchor' = u.selected_anchor
        /\ dragging' = u.dragging
        /\ fixed_lim' = u.fixed_lim
        /\ shown' = u.shown
        /\ raw' = u.raw

\* update_preview
UpdatePreviewDeselects(t, ui, rw) ==
    LET par == GetParameters(ui.lt, ui.pt, ui.sm)
    IN IF rw.nx = 0 \/ rw.ny = 0 THEN [t EXCEPT !.shown = "no_data"]
       ELSE IF rw.nx # rw.ny THEN [t EXCEPT !.shown = "mismatch"]
       ELSE LET lim == IF t.fixed_lim.set THEN t.fixed_lim ELSE InitialLimits(rw)
            IN IF BaselineRaises(rw, par)
               THEN [t EXCEPT !.fixed_lim = lim, !.shown = "raw_calc_failed",
                              !.selected_anchor = None, !.dragging = FALSE,
                              !.raw = AbsorbanceAfterCall(rw, par)]
               ELSE [t EXCEPT !.fixed_lim = lim,
                              !.shown = IF ui.toggled THEN "corrected" ELSE "baseline",
                              !.raw = AbsorbanceAfterCall(rw, par)]

UpdatePreview(t, ui, rw) ==
    LET par == GetParameters(ui.lt, ui.pt, ui.sm)
    IN IF rw.nx = 0 \/ rw.ny = 0 THEN [t EXCEPT !.shown = "no_data"]
       ELSE IF rw.nx # rw.ny THEN [t EXCEPT !.shown = "mismatch"]
       ELSE LET lim == IF t.fixed_lim.set THEN t.fixed_lim ELSE InitialLimits(rw)
                view == IF BaselineRaises(rw, par) THEN "raw_calc_failed"
                        ELSE IF ui.toggled THEN "corrected"
                        ELSE "baseline"
            IN [t EXCEPT !.fixed_lim = lim, !.shown = view,
                         !.raw = AbsorbanceAfterCall(rw, par)]

\* Squared pixel distance between two data points under ax.transData
PixelDist2(x1, y1, x2, y2) ==
    (PxPerX * (x1 - x2)) * (PxPerX * (x1 - x2)) + (PxPerY * (y1 - y2)) * (PxPerY * (y1 - y2))

\* The loop of on_mouse_press over the anchors from position i (from 1) on, with
\* the closest anchor found so far (from 0, or None) and its squared distance
RECURSIVE HitTestFrom(_, _, _, _, _, _)
HitTestFrom(ancs, mx, my, i, best, bestd2) ==
    IF i > Len(ancs) THEN best
    ELSE LET d2 == PixelDist2(mx, my, ancs[i][1], ancs[i][2])
         IN IF (best = None \/ d2 < bestd2) /\ d2 < 10 * 10
            THEN HitTestFrom(ancs, mx, my, i + 1, i - 1, d2)
            ELSE HitTestFrom(ancs, mx, my, i + 1, best, bestd2)

HitTestSkipsFirst(ancs, mx, my) == HitTestFrom(ancs, mx, my, 2, None, 0)

HitTest(ancs, mx, my) == HitTestFrom(ancs, mx, my, 1, None, 0)

\* on_mouse_press
OnMousePressSelectsOnly(t, ui, rw, inaxes, button, mx, my) ==
    IF ~inaxes THEN t
    ELSE IF button # 1 THEN t
    ELSE IF t.anchors = <<>> THEN t
    ELSE LET closest_anchor_idx == HitTest(t.anchors, mx, my)
         IN IF closest_anchor_idx = None THEN t
            ELSE UpdatePreview([t EXCEPT !.selected_anchor = closest_anchor_idx], ui, rw)

OnMousePress(t, ui, rw, inaxes, button, mx, my) ==
    IF ~inaxes THEN t
    ELSE IF button # 1 THEN t
    ELSE IF t.anchors = <<>> THEN t
    ELSE LET closest_anchor_idx == HitTest(t.anchors, mx, my)
         IN IF closest_anchor_idx = None THEN t
            ELSE UpdatePreview([t EXCEPT !.selected_anchor = closest_anchor_idx,
                                          !.dragging = TRUE], ui, rw)

\* on_mouse_release
OnMouseReleaseDeselects(t, ui, rw) ==
    IF t.dragging
    THEN UpdatePreview([t EXCEPT !.dragging = FALSE, !.selected_anchor = None], ui, rw)
    ELSE t

OnMouseRelease(t, ui, rw) ==
    IF t.dragging THEN UpdatePreview([t EXCEPT !.dragging = FALSE], ui, rw) ELSE t

\* self.anchors.pop(anchor_idx), anchor_idx from 0
Pop(ancs, idx) ==
    [i \in 1 .. (Len(ancs) - 1) |-> IF i <= idx THEN ancs[i] ELSE ancs[i + 1]]

\* remove_single_anchor
RemoveSingleAnchorNoReindex(t, ui, rw, idx) ==
    IF 0 <= idx /\ idx < Len(t.anchors)
    THEN UpdatePreview([t EXCEPT !.anchors = Pop(t.anchors, idx),
                                  !.selected_anchor =
                                      IF t.selected_anchor = idx THEN None
                                      ELSE t.selected_anchor], ui, rw)
    ELSE t

RemoveSingleAnchor(t, ui, rw, idx) ==
    IF 0 <= idx /\ idx < Len(t.anchors)
    THEN UpdatePreview([t EXCEPT !.anchors = Pop(t.anchors, idx),
                                  !.selected_anchor =
                                      IF t.selected_anchor = idx THEN None
                                      ELSE IF t.selected_anchor # None /\ t.selected_anchor > idx
                                      THEN t.selected_anchor - 1
                                      ELSE t.selected_anchor], ui, rw)
    ELSE t

\* on_key_press
OnKeyPress(t, ui, rw, key) ==
    IF key = "delete" \/ key = "backspace"
    THEN IF t.selected_anchor # None
         THEN RemoveSingleAnchor(t, ui, rw, t.selected_anchor)
         ELSE t
    ELSE IF key = "escape"
    THEN UpdatePreview([t EXCEPT !.selected_anchor = None, !.dragging = FALSE], ui, rw)
    ELSE t

\* on_mouse_move
OnMouseMoveUnclamped(t, ui, rw, inaxes, mx, my) ==
    IF ~inaxes \/ ~t.dragging \/ t.selected_anchor = None THEN t
    ELSE UpdatePreview([t EXCEPT !.anchors[t.selected_anchor + 1] = <<mx, my>>], ui, rw)

OnMouseMove(t, ui, rw, inaxes, mx, my) ==
    IF ~inaxes \/ ~t.dragging \/ t.selected_anchor = None THEN t
    ELSE LET constrained_x == Max(t.fixed_lim.xlim[1], Min(t.fixed_lim.xlim[2], mx))
             constrained_y == Max(t.fixed_lim.ylim[1], Min(t.fixed_lim.ylim[2], my))
         IN UpdatePreview([t EXCEPT !.anchors[t.selected_anchor + 1] =
                                        <<constrained_x, constrained_y>>], ui, rw)

\* add_anchor, y_final the y it ends up appending
AddAnchor(t, ui, rw, ax, y_final) ==
    UpdatePreview([t EXCEPT !.anchors = Append(t.anchors, <<ax, y_final>>)], ui, rw)

\* The first anchor may be snapped to the ALS baseline: the solve succeeds and
\* the sample nearest to x has a baseline value (it may not when y is shorter than x)
MaySnap(t, ui, rw) ==
    /\ t.anchors = <<>>
    /\ rw.nx > 0 /\ rw.ny > 0
    /\ ~BaselineRaises(rw, GetParameters(ui.lt, ui.pt, ui.sm))
MustSnap(t, ui, rw) == MaySnap(t, ui, rw) /\ rw.nx <= rw.ny

\* clear_anchors
ClearAnchorsKeepsSelection(t, ui, rw) ==
    UpdatePreview([t EXCEPT !.anchors = <<>>, !.dragging = FALSE], ui, rw)

ClearAnchors(t, ui, rw) ==
    UpdatePreview([t EXCEPT !.anchors = <<>>, !.selected_anchor = None, !.dragging = FALSE],
                  ui, rw)

\* A mouse position inside the axes lies within the limits in view: the fixed
\* limits, except that the corrected view autoscales y; the default (0, 1)
\* limits of a cleared plot before any limits were fixed
InView(mx, my) ==
    /\ fixed_lim.xlim[1] <= mx /\ mx <= fixed_lim.xlim[2]
    /\ \/ fixed_lim.set /\ view_toggle
       \/ fixed_lim.ylim[1] <= my /\ my <= fixed_lim.ylim[2]

\* The record as a value: a top-level dict with the metadata dict it refers to
DeepView(d, ms) ==
    [baseline |-> d.baseline, has_meta |-> d.meta # 0,
     meta |-> IF d.meta = 0 THEN NoMeta ELSE ms[d.meta]]
\* A file whose writing broke off
PartialFile == [baseline |-> EmptyBaseline, has_meta |-> FALSE, meta |-> [NoMeta EXCEPT !.modified = "partial"]]

\* The files of the analyzer's folder and the name the tab was opened with
FolderFiles == <<"converted_ylk/sample.ylk">>
Filename == "sample"
Basename(path) == IF path = "converted_ylk/sample.ylk" THEN "sample" ELSE path
FileFound == \E i \in 1 .. Len(FolderFiles) : Basename(FolderFiles[i]) = Filename

\* baseline_params as save_baseline builds it
BaselineParamsAlwaysAls(par, ancs) ==
    [present |-> TRUE, method |-> "als", lambda |-> par.lam, p |-> par.p,
     smooth |-> par.smooth, has_anchors |-> ancs # <<>>, anchors |-> ancs]

BaselineParams(par, ancs) ==
    [present |-> TRUE,
     method |-> IF ancs # <<>> THEN "als_with_anchors" ELSE "als",
     lambda |-> par.lam, p |-> par.p, smooth |-> par.smooth,
     has_anchors |-> ancs # <<>>,
     anchors |-> ancs]

TabInit ==
    \E sc \in Scenarios :
        LET existing_params == IF sc.has_meta THEN sc.params ELSE NoParams
            existing_lambda == IF existing_params.present /\ ~LeqZero(existing_params.lambda)
                               THEN existing_params.lambda ELSE F(100000)
            existing_p == IF existing_params.present /\ StrictlyInUnit(existing_params.p)
                          THEN existing_params.p ELSE Q(1, 100)
            default_smooth == existing_params.present /\ existing_params.smooth
            record == [baseline |-> IF existing_params.present
                                    THEN ComputedBaseline(sc.raw,
                                             [lam |-> existing_params.lambda,
                                              p |-> existing_params.p,
                                              smooth |-> existing_params.smooth],
                                             existing_params.anchors)
                                    ELSE EmptyBaseline,
                       meta |-> IF sc.has_meta THEN 1 ELSE 0]
            ms == [i \in 1 .. 2 |->
                     IF i = 1 /\ sc.has_meta
                     THEN [params |-> existing_params,
                           modified |-> IF existing_params.present THEN "earlier" ELSE "absent"]
                     ELSE NoMeta]
            t0 == [anchors |-> existing_params.anchors, selected_anchor |-> None,
                   dragging |-> FALSE, fixed_lim |-> NoLimits, shown |-> "blank",
                   raw |-> sc.raw]
            t1 == UpdatePreview(t0, [lt |-> FormatG(existing_lambda), pt |-> existing_p,
                                     sm |-> default_smooth, toggled |-> FALSE], sc.raw)
        IN /\ raw = t1.raw
           /\ has_parent = sc.parent
           /\ dicts = [rec |-> record, tab |-> record]
           /\ metas = ms
           /\ folder_slot = "rec"
           /\ disk = DeepView(record, ms)
           /\ lambda_edit = FormatG(existing_lambda)
           /\ p_edit = existing_p
           /\ smooth_checkbox = default_smooth
           /\ view_toggle = FALSE
           /\ tab_open = TRUE
           /\ msg = "none"
           /\ write_ok = "none"
           /\ anchors = t1.anchors
           /\ selected_anchor = t1.selected_anchor
           /\ dragging = t1.dragging
           /\ fixed_lim = t1.fixed_lim
           /\ shown = t1.shown

TabIdle ==
    /\ selected_anchor = None
    /\ dragging = FALSE
    /\ fixed_lim = NoLimits
    /\ shown = "blank"
    /\ lambda_edit = F(100000)
    /\ p_edit = Q(1, 100)
    /\ smooth_checkbox = FALSE
    /\ view_toggle = FALSE
    /\ tab_open = FALSE
    /\ has_parent = FALSE
    /\ raw = RawData(0, 0)
    /\ dicts = [rec |-> [baseline |-> EmptyBaseline, meta |-> 0],
                tab |-> [baseline |-> EmptyBaseline, meta |-> 0]]
    /\ metas = [i \in 1 .. 2 |-> NoMeta]
    /\ folder_slot = "rec"
    /\ disk = DeepView([baseline |-> EmptyBaseline, meta |-> 0], [i \in 1 .. 2 |-> NoMeta])
    /\ msg = "none"
    /\ write_ok = "none"

RmIdle == rm_pc = "idle" /\ anchor_idx = None

\* What a handler that touches neither the widgets nor the record leaves alone
HandlerFrame ==
    /\ msg' = "none"
    /\ write_ok' = "none"
    /\ UNCHANGED <<tab_open, has_parent, dicts, metas, folder_slot, disk>>
    /\ UNCHANGED <<alsVars, adjVars, rmVars, normVars, codecVars, storeVars, winVars>>

WidgetsUnchanged == UNCHANGED <<lambda_edit, p_edit, smooth_checkbox, view_toggle>>

\* button_press_event
MousePress ==
    /\ tab_open
    /\ \E inaxes \in BOOLEAN, button \in {1, 3}, mx \in MouseXs, my \in MouseYs :
          /\ inaxes => InView(mx, my)
          /\ SetTab(OnMousePress(Tab, Ui, raw, inaxes, button, mx, my))
    /\ WidgetsUnchanged
    /\ HandlerFrame

\* button_release_event
MouseRelease ==
    /\ tab_open
    /\ SetTab(OnMouseRelease(Tab, Ui, raw))
    /\ WidgetsUnchanged
    /\ HandlerFrame

\* motion_notify_event
MouseMove ==
    /\ tab_open
    /\ \E inaxes \in BOOLEAN, mx \in MouseXs, my \in MouseYs :
          /\ inaxes => InView(mx, my)
          /\ SetTab(OnMouseMove(Tab, Ui, raw, inaxes, mx, my))
    /\ WidgetsUnchanged
    /\ HandlerFrame

\* key_press_event
KeyPress(key) ==
    /\ tab_open
    /\ SetTab(OnKeyPress(Tab, Ui, raw, key))
    /\ WidgetsUnchanged
    /\ HandlerFrame

KeyPressed == \E key \in Keys : KeyPress(key)

\* "Add Anchor Point" of the context menu
AddAnchorPoint ==
    /\ tab_open
    /\ Len(anchors) < MaxTabAnchors
    /\ \E ax \in AddXs, ay \in AddYs, baseline_y \in SnapYs, snapped \in BOOLEAN :
          /\ snapped => MaySnap(Tab, Ui, raw)
          /\ MustSnap(Tab, Ui, raw) => snapped
          /\ SetTab(AddAnchor(Tab, Ui, raw, ax, IF snapped THEN baseline_y ELSE ay))
    /\ WidgetsUnchanged
    /\ HandlerFrame

\* "Clear All Anchors" of the context menu, offered while there are anchors
ClearAllAnchors ==
    /\ tab_open
    /\ anchors # <<>>
    /\ SetTab(ClearAnchors(Tab, Ui, raw))
    /\ WidgetsUnchanged
    /\ HandlerFrame

\* toggle_view
ToggleView ==
    /\ tab_open
    /\ view_toggle' = ~view_toggle
    /\ SetTab(UpdatePreview(Tab, [Ui EXCEPT !.toggled = ~view_toggle], raw))
    /\ UNCHANGED <<lambda_edit, p_edit, smooth_checkbox>>
    /\ HandlerFrame

\* lambda_edit.textChanged
LambdaEdited ==
    /\ tab_open
    /\ \E text \in LambdaTexts :
          /\ text # lambda_edit
          /\ lambda_edit' = text
          /\ SetTab(UpdatePreview(Tab, [Ui EXCEPT !.lt = text], raw))
    /\ UNCHANGED <<p_edit, smooth_checkbox, view_toggle>>
    /\ HandlerFrame

\* p_edit.textChanged
PEdited ==
    /\ tab_open
    /\ \E text \in PTexts :
          /\ text # p_edit
          /\ p_edit' = text
          /\ SetTab(UpdatePreview(Tab, [Ui EXCEPT !.pt = text], raw))
    /\ UNCHANGED <<lambda_edit, smooth_checkbox, view_toggle>>
    /\ HandlerFrame

\* smooth_checkbox.stateChanged
SmoothChanged ==
    /\ tab_open
    /\ smooth_checkbox' = ~smooth_checkbox
    /\ SetTab(UpdatePreview(Tab, [Ui EXCEPT !.sm = ~smooth_checkbox], raw))
    /\ UNCHANGED <<lambda_edit, p_edit, view_toggle>>
    /\ HandlerFrame

\* close_tab, from the "Close Tab" button
CloseTab ==
    /\ tab_open
    /\ has_parent
    /\ tab_open' = FALSE
    /\ msg' = "none"
    /\ write_ok' = "none"
    /\ UNCHANGED <<anchors, selected_anchor, dragging, fixed_lim, shown>>
    /\ WidgetsUnchanged
    /\ UNCHANGED <<has_parent, raw, dicts, metas, folder_slot, disk>>
    /\ UNCHANGED <<alsVars, adjVars, rmVars, normVars, codecVars, storeVars, winVars>>

\* save_baseline returns early or catches an exception: a warning and nothing else
SaveWarns(text) ==
    /\ msg' = text
    /\ write_ok' = "none"
    /\ UNCHANGED <<tab_open, dicts, metas, folder_slot, disk>>

\* save_baseline
SaveBaseline ==
    /\ tab_open
    /\ LET par == GetParameters(lambda_edit, p_edit, smooth_checkbox)
           \* lines 628-636: the new baseline and its parameters go into self.ylk_data
           mid == IF dicts.tab.meta = 0 THEN 2 ELSE dicts.tab.meta
           tab1 == [dicts.tab EXCEPT !.baseline = ComputedBaseline(raw, par, anchors),
                                     !.meta = mid]
           metas1 == [metas EXCEPT ![mid].params = BaselineParams(par, anchors)]
           \* save_ylk_file stamps the metadata before it opens the file
           metas2 == [metas1 EXCEPT ![mid].modified = "now"]
       IN IF raw.nx = 0 \/ raw.ny = 0 THEN SaveWarns("No data available to create baseline")
          ELSE IF raw.nx # raw.ny THEN SaveWarns("Data dimensions do not match")
          ELSE IF raw.nx < 10 THEN SaveWarns("Insufficient data points")
          ELSE IF BaselineRaises(raw, par) THEN SaveWarns("Baseline calculation failed")
          ELSE IF ~has_parent
          THEN /\ msg' = "Could not find file"
               /\ write_ok' = "none"
               /\ dicts' = [dicts EXCEPT !.tab = tab1]
               /\ metas' = metas1
               /\ UNCHANGED <<tab_open, folder_slot, disk>>
          ELSE IF ~FileFound
          THEN /\ msg' = "Could not find file to save"
               /\ write_ok' = "none"
               /\ dicts' = [dicts EXCEPT !.tab = tab1]
               /\ metas' = metas1
               /\ UNCHANGED <<tab_open, folder_slot, disk>>
          ELSE \E outcome \in {"written", "open fails", "write fails"} :
                  /\ dicts' = [dicts EXCEPT !.tab = tab1]
                  /\ metas' = metas2
                  /\ disk' = IF outcome = "written" THEN DeepView(tab1, metas2)
                             ELSE IF outcome = "open fails" THEN disk
                             ELSE PartialFile
                  /\ write_ok' = IF outcome = "written" THEN "ok" ELSE "failed"
                  /\ msg' = IF outcome = "written" THEN "Success" ELSE "none"
                  /\ folder_slot' = IF outcome = "written" THEN "tab" ELSE folder_slot
                  \* close_tab, whatever save_ylk_file returned
                  /\ tab_open' = FALSE
    /\ UNCHANGED <<anchors, selected_anchor, dragging, fixed_lim, shown>>
    /\ WidgetsUnchanged
    /\ UNCHANGED has_parent
    \* lines 596-613: the baseline is computed only for data that passed the checks
    /\ raw' = IF raw.nx = 0 \/ raw.ny = 0 \/ raw.nx # raw.ny \/ raw.nx < 10 THEN raw
              ELSE AbsorbanceAfterCall(raw, GetParameters(lambda_edit, p_edit, smooth_checkbox))
    /\ UNCHANGED <<alsVars, adjVars, rmVars, normVars, codecVars, storeVars, winVars>>

Init == AlsIdle /\ AdjIdle /\ TabInit /\ RmIdle /\ NormIdle /\ CodecIdle /\ StoreIdle /\ WinIdle

Next ==
    \/ MousePress
    \/ MouseRelease
    \/ MouseMove
    \/ KeyPressed
    \/ AddAnchorPoint
    \/ ClearAllAnchors
    \/ ToggleView
    \/ LambdaEdited
    \/ PEdited
    \/ SmoothChanged
    \/ CloseTab
    \/ SaveBaseline

Spec == Init /\ [][Next]_vars

(***************************************************************************)
(* remove_single_anchor called with any index                              *)
(***************************************************************************)
RmPoints == {<<0, 0>>, <<1, 0>>, <<2, 0>>}

RmInit ==
    /\ rm_pc = "call"
    /\ anchors \in SeqsUpTo(RmPoints, MaxTabAnchors + 1)
    /\ selected_anchor \in {None} \cup (0 .. (Len(anchors) - 1))
    /\ dragging \in BOOLEAN
    /\ anchor_idx \in None .. (Len(anchors) + 1)
    /\ fixed_lim = InitialLimits(RawData(12, 12))
    /\ shown = "baseline"
    /\ lambda_edit = F(100000)
    /\ p_edit = Q(1, 100)
    /\ smooth_checkbox = FALSE
    /\ view_toggle = FALSE
    /\ tab_open = TRUE
    /\ has_parent = TRUE
    /\ raw = RawData(12, 12)
    /\ dicts = [rec |-> [baseline |-> EmptyBaseline, meta |-> 1],
                tab |-> [baseline |-> EmptyBaseline, meta |-> 1]]
    /\ metas = [i \in 1 .. 2 |-> NoMeta]
    /\ folder_slot = "rec"
    /\ disk = DeepView([baseline |-> EmptyBaseline, meta |-> 1], [i \in 1 .. 2 |-> NoMeta])
    /\ msg = "none"
    /\ write_ok = "none"

RemoveCall ==
    /\ rm_pc = "call"
    /\ SetTab(RemoveSingleAnchor(Tab, Ui, raw, anchor_idx))
    /\ rm_pc' = "done"
    /\ UNCHANGED anchor_idx
    /\ WidgetsUnchanged
    /\ UNCHANGED <<tab_open, has_parent, dicts, metas, folder_slot, disk, msg, write_ok>>
    /\ UNCHANGED <<alsVars, adjVars, normVars, codecVars, storeVars, winVars>>

InitRemove == AlsIdle /\ AdjIdle /\ RmInit /\ NormIdle /\ CodecIdle /\ StoreIdle /\ WinIdle

SpecRemove == InitRemove /\ [][RemoveCall]_vars

InitAdjust == AdjInit /\ AlsIdle /\ TabIdle /\ RmIdle /\ NormIdle /\ CodecIdle /\ StoreIdle /\ WinIdle

SpecAdjust == InitAdjust /\ [][AdjNext]_vars

InitAls == AlsInit /\ AdjIdle /\ anchors = <<>> /\ TabIdle /\ RmIdle /\ NormIdle /\ CodecIdle /\ StoreIdle /\ WinIdle

SpecAls == InitAls /\ [][AlsNext]_vars

InitNorm == NormInit /\ AlsIdle /\ AdjIdle /\ anchors = <<>> /\ TabIdle /\ RmIdle /\ CodecIdle /\ StoreIdle /\ WinIdle

SpecNorm == InitNorm /\ [][PreprocessData]_vars

InitCodec == CodecInit /\ AlsIdle /\ AdjIdle /\ anchors = <<>> /\ TabIdle /\ RmIdle /\ NormIdle /\ StoreIdle /\ WinIdle

SpecCodec == InitCodec /\ [][CodecNext]_vars

InitStore == StoreInit /\ AlsIdle /\ AdjIdle /\ anchors = <<>> /\ TabIdle /\ RmIdle /\ NormIdle /\ CodecIdle /\ WinIdle

SpecStore == InitStore /\ [][StoreNext]_vars

SpecSelect == InitStore /\ [][SelectNext]_vars

InitWindow == WinInit /\ AlsIdle /\ AdjIdle /\ anchors = <<>> /\ TabIdle /\ RmIdle /\ NormIdle /\ CodecIdle /\ StoreIdle

SpecWindow == InitWindow /\ [][Smooth]_vars

(***************************************************************************)
(* Claims about baseline_als                                               *)
(***************************************************************************)
\* The inputs the contract of baseline_als excludes
C1_BadInput ==
    \/ Len(y) < 3
    \/ \E i \in 1 .. Len(y) : y[i].k # "fin"
    \/ (lam.k = "fin" /\ lam.v <= 0)
    \/ p.n <= 0
    \/ p.n >= p.d

\* C1: a call of baseline_als with len(y) < 3, a non-finite sample, lam <= 0
\* or p outside (0, 1) never enters the solve loop and ends by raising,
\* returning no baseline.
C1_RejectsBadInput ==
    C1_BadInput =>
        /\ als_pc \in {"validate", "done"}
        /\ w = <<>>
        /\ z = <<>>
        /\ (als_pc = "done" => als_result = [raised |-> TRUE, value |-> <<>>])

\* A finished call whose only offence is lam <= 0
C1_Witness ==
    /\ als_pc = "done"
    /\ Len(y) = 3
    /\ \A i \in 1 .. Len(y) : y[i].k = "fin"
    /\ lam.v <= 0
    /\ 0 < p.n /\ p.n < p.d
    /\ als_result.raised

\* C2: for every finite y with len(y) >= 3, valid lam and p and niter >= 1,
\* baseline_als returns an array as long as y whose entries are all finite.
C2_FiniteSameLength ==
    (als_pc = "done" /\ ~C1_BadInput) =>
        /\ ~als_result.raised
        /\ Len(als_result.value) = Len(y)
        /\ \A i \in 1 .. Len(als_result.value) : als_result.value[i].k = "fin"

(***************************************************************************)
(* Claims about _apply_anchor_adjustments                                  *)
(***************************************************************************)
Permuted(ancs, perm) == [i \in 1 .. Len(ancs) |-> ancs[perm[i]]]

\* The first sample whose x is nearest to ax
C5_Nearest(ax) ==
    CHOOSE i \in 1 .. Len(x_data) :
        /\ \A j \in 1 .. Len(x_data) : Abs(x_data[i] - ax) <= Abs(x_data[j] - ax)
        /\ \A j \in 1 .. (i - 1) : Abs(x_data[j] - ax) > Abs(x_data[i] - ax)

\* The bump of anchor k at sample i, from the baseline as it was passed
C3_Bump(k, i) ==
    LET n == C5_Nearest(anchors[k][1])
    IN FMulWeight(FSub(anchors[k][2], baseline_arg[n]),
                  GaussWeight(Abs(x_data[i] - x_data[n]), SeqMax(x_data) - SeqMin(x_data)))

\* Rounding allowance at sample i: two units in the last place, per anchor,
\* of the sum of the magnitudes that are added up there
C3_Tol(i) ==
    2 * Len(anchors)
      * Ulp(Abs(baseline_arg[i])
            + SumTo([k \in 1 .. Len(anchors) |-> Abs(C3_Bump(k, i))], Len(anchors)))

\* C3 as stated: every permutation of the anchor list yields the same
\* adjusted baseline, sample for sample.
C3_PermutationIdentical ==
    adj_pc = "done" =>
        \A perm \in Permutations(1 .. Len(anchors)) :
            ApplyAnchorAdjustments(x_data, baseline_arg, Permuted(anchors, perm))
                = adjusted_baseline

\* C3 amended: every permutation of the anchor list yields the same adjusted
\* baseline up to floating-point rounding: at every sample two orders differ
\* by no more than the rounding allowance.
C3_PermutationWithinRounding ==
    adj_pc = "done" =>
        \A perm \in Permutations(1 .. Len(anchors)) :
            LET other == ApplyAnchorAdjustments(x_data, baseline_arg, Permuted(anchors, perm))
            IN \A i \in 1 .. Len(x_data) :
                  Abs(other[i] - adjusted_baseline[i]) <= C3_Tol(i)

\* Two different anchors with overlapping bumps have been applied
C3_Witness ==
    /\ adj_pc = "done"
    /\ Len(anchors) = 2
    /\ anchors[1] # anchors[2]
    /\ C5_Nearest(anchors[1][1]) # C5_Nearest(anchors[2][1])
    /\ \E i \in 1 .. Len(x_data) : C3_Bump(1, i) # 0 /\ C3_Bump(2, i) # 0
    /\ adjusted_baseline # baseline_arg

\* C4: the array passed as the baseline is never modified, and with an empty
\* anchor list the returned baseline equals it at every sample.
C4_IdentityAndArgumentUntouched ==
    /\ als_baseline = baseline_arg
    /\ (adj_pc = "done" /\ anchors = <<>>) => adjusted_baseline = baseline_arg

\* A call with no anchors has returned, and a call with anchors has returned
\* a baseline different from its argument
C4_Witness ==
    /\ adj_pc = "done"
    /\ anchors = <<>>
    /\ adjusted_baseline = baseline_arg
    /\ \E i \in 1 .. Len(baseline_arg) : baseline_arg[i] # 0

\* Anchor k is far from every other anchor: the weight of each other anchor's
\* bump is zero at the sample nearest to anchor k
C5_FarApart(k) ==
    \A j \in 1 .. Len(anchors) :
        j # k =>
            GaussWeight(Abs(x_data[C5_Nearest(anchors[j][1])] - x_data[C5_Nearest(anchors[k][1])]),
                        SeqMax(x_data) - SeqMin(x_data)) = 0

\* C5 as stated: with a single anchor, or with anchors far apart, the adjusted
\* baseline at the first sample nearest to an anchor equals the anchor's y exactly.
C5_ExactAtAnchor ==
    (adj_pc = "done" /\ anchors # <<>>) =>
        \A k \in 1 .. Len(anchors) :
            C5_FarApart(k) => adjusted_baseline[C5_Nearest(anchors[k][1])] = anchors[k][2]

\* C5 amended: with a single anchor, or with anchors far apart, the adjusted
\* baseline at the first sample nearest to an anchor equals the anchor's y up
\* to floating-point rounding (two units in the last place of |baseline| + |y|).
C5_WithinRoundingAtAnchor ==
    (adj_pc = "done" /\ anchors # <<>>) =>
        \A k \in 1 .. Len(anchors) :
            C5_FarApart(k) =>
                LET n == C5_Nearest(anchors[k][1])
                IN Abs(adjusted_baseline[n] - anchors[k][2])
                       <= 2 * Ulp(Abs(baseline_arg[n]) + Abs(anchors[k][2]))

\* A single anchor midway between two samples has pulled the first of them to its y
C5_Witness ==
    /\ adj_pc = "done"
    /\ Len(anchors) = 1
    /\ \E i \in 1 .. Len(x_data) :
          /\ i # C5_Nearest(anchors[1][1])
          /\ Abs(x_data[i] - anchors[1][1]) = Abs(x_data[C5_Nearest(anchors[1][1])] - anchors[1][1])
    /\ baseline_arg[C5_Nearest(anchors[1][1])] # anchors[1][2]
    /\ adjusted_baseline[C5_Nearest(anchors[1][1])] = anchors[1][2]

\* Two anchors far apart have each pulled their nearest sample
C5_WitnessFarApart ==
    /\ adj_pc = "done"
    /\ Len(anchors) = 2
    /\ C5_FarApart(1)
    /\ baseline_arg[C5_Nearest(anchors[1][1])] # anchors[1][2]
    /\ baseline_arg[C5_Nearest(anchors[2][1])] # anchors[2][2]

(***************************************************************************)
(* Claims about the baseline tab                                           *)
(***************************************************************************)
\* The anchors left when the one at 0-based position idx is taken out of ancs
IsRemovalOf(after, before, idx) ==
    /\ Len(after) = Len(before) - 1
    /\ \A j \in 1 .. Len(after) : after[j] = IF j <= idx THEN before[j] ELSE before[j + 1]

\* C6: remove_single_anchor(idx) with idx in range removes that anchor and keeps the
\* selection on the same anchor: the selection is cleared when it was idx, goes down
\* by one when it was greater than idx, and stays otherwise; with idx out of range
\* nothing changes.
C6_RemoveKeepsSelectionOnSameAnchor ==
    [][(rm_pc = "call" /\ rm_pc' = "done") =>
          IF 0 <= anchor_idx /\ anchor_idx < Len(anchors)
          THEN /\ IsRemovalOf(anchors', anchors, anchor_idx)
               /\ selected_anchor' =
                     IF selected_anchor = anchor_idx THEN None
                     ELSE IF selected_anchor # None /\ selected_anchor > anchor_idx
                     THEN selected_anchor - 1
                     ELSE selected_anchor
               /\ (selected_anchor' # None =>
                     anchors'[selected_anchor' + 1] = anchors[selected_anchor + 1])
          ELSE UNCHANGED <<anchors, selected_anchor, dragging>>]_vars

\* an anchor before the selected one has been removed and the selection moved down
C6_Witness ==
    /\ rm_pc = "done"
    /\ 0 <= anchor_idx
    /\ selected_anchor # None
    /\ anchor_idx <= selected_anchor
    /\ Len(anchors) = MaxTabAnchors

\* C7: releasing the mouse ends the drag and keeps the selection, and a drag keeps
\* it too; the selection is cleared only by escape, by deleting the selected anchor
\* or by clearing all anchors, so after press, drag and release the delete key
\* finds the anchor that was pressed.
C7_ReleaseKeepsSelection ==
    [][/\ (selected_anchor' # selected_anchor \/ dragging') => ~MouseRelease
       /\ selected_anchor' # selected_anchor => ~MouseMove
       /\ (selected_anchor # None /\ selected_anchor' = None) =>
             \/ KeyPress("escape")
             \/ KeyPress("delete") \/ KeyPress("backspace")
             \/ ClearAllAnchors
       /\ ((KeyPress("delete") \/ KeyPress("backspace")) /\ selected_anchor # None) =>
             /\ IsRemovalOf(anchors', anchors, selected_anchor)
             /\ selected_anchor' = None]_vars

\* an anchor was pressed, dragged to x = 2 and released, and is still selected
C7_Witness ==
    /\ tab_open
    /\ ~dragging
    /\ selected_anchor # None
    /\ anchors[selected_anchor + 1][1] = 2

\* C8: a change of lambda, p or the smoothing checkbox recomputes the preview and
\* leaves the anchors, the selection, the dragging flag and the fixed axis limits
\* as they were, whether nothing is selected, an anchor is selected or a drag is on.
C8_ParameterChangeKeepsController ==
    [][(LambdaEdited \/ PEdited \/ SmoothChanged) =>
          /\ UNCHANGED <<anchors, selected_anchor, dragging, fixed_lim>>
          /\ shown' = UpdatePreview(Tab, Ui', raw).shown]_vars

\* lambda was changed to a value the tab never starts with, and a drag is on
C8_Witness ==
    /\ tab_open
    /\ dragging
    /\ selected_anchor # None
    /\ fixed_lim.set
    /\ lambda_edit = F(0)
    /\ shown = "raw_calc_failed"

\* The record the analyzer's folder holds for the file, as a value
FolderRecord == DeepView(dicts[folder_slot], metas)

SaveFails ==
    \/ msg \in {"Baseline calculation failed", "Could not find file",
                "Could not find file to save"}
    \/ write_ok = "failed"

\* C9: when Save Baseline ends in an error (the solver rejects the input, the file
\* is not found, or the file cannot be written) the record held in memory is the
\* one held before.
C9_ErrorLeavesRecord ==
    [][(SaveBaseline /\ SaveFails') => FolderRecord' = FolderRecord]_vars

\* C10: when the file cannot be written an error message is shown and no success
\* is reported.
C10_WriteFailureShown ==
    write_ok = "failed" => msg \notin {"none", "Success"}

\* C11: after a successful save the record's baseline x is the raw x and its y is
\* as long as the raw y; in every state the record's baseline is empty or on the
\* raw x-grid.
C11_BaselineOnRawGrid ==
    /\ \/ FolderRecord.baseline = EmptyBaseline
       \/ /\ FolderRecord.baseline.x = RawX(raw)
          /\ FolderRecord.baseline.ny = raw.ny
    /\ write_ok = "ok" =>
          /\ FolderRecord.baseline.x = RawX(raw)
          /\ FolderRecord.baseline.ny = raw.ny
          /\ disk.baseline = FolderRecord.baseline

\* a baseline was saved for a record of twelve points
C11_Witness ==
    /\ write_ok = "ok"
    /\ raw.nx = 12
    /\ FolderRecord.baseline.x = RawX(raw)
    /\ FolderRecord.baseline.ny = 12

\* r > 0 as Python evaluates it
GreaterThanZero(r) ==
    \/ r.k = "fin" /\ r.v > 0
    \/ r.k = "inf" /\ r.v > 0

\* C12: every baseline_params stored by save_baseline, in the tab's record, the
\* folder's record or the file, has lambda > 0 and 0 < p < 1.
C12_StoredParamsInRange ==
    /\ \A i \in 1 .. 2 :
          metas[i].params.present =>
             GreaterThanZero(metas[i].params.lambda) /\ StrictlyInUnit(metas[i].params.p)
    /\ disk.meta.params.present =>
          GreaterThanZero(disk.meta.params.lambda) /\ StrictlyInUnit(disk.meta.params.p)

\* C19: after every round of baseline_als the weight of sample i is p where
\* y[i] > z[i] and 1 - p where y[i] is at or below z[i]; every weight is positive
\* and the system of the next round is not singular.
C19_WeightsPositive ==
    (als_pc = "loop" /\ it >= 1) =>
        /\ \A i \in 1 .. Len(y) :
              /\ w[i] = IF GreaterThan(y[i].v, z[i]) THEN p.n ELSE p.d - p.n
              /\ w[i] > 0
        /\ Det(SystemMatrix(w, lam.v, p.d)) # 0

\* C20 as stated: a left click on an anchor while nothing is selected records the
\* anchor and leaves dragging off; dragging is switched on only by a mouse move.
C20_PressSelectsWithoutDragging ==
    [][/\ (selected_anchor = None /\ ~dragging /\ selected_anchor' # None) => ~dragging'
       /\ (~dragging /\ dragging') => MouseMove]_vars

\* C20: a left click within the threshold of an anchor records that anchor as
\* selected and switches dragging on at once, leaving the anchors where they are;
\* nothing else switches dragging on, and an anchor changes position only by a
\* mouse move inside the axes while dragging is on.
C20_PressSelectsAndArmsDrag ==
    [][/\ (selected_anchor = None /\ selected_anchor' # None) => (MousePress /\ dragging')
       /\ (~dragging /\ dragging') =>
             (MousePress /\ selected_anchor' # None /\ anchors' = anchors)
       /\ (Len(anchors') = Len(anchors) /\ anchors' # anchors) =>
             (MouseMove /\ dragging /\ selected_anchor # None)]_vars

\* an anchor added at x = 1 has been pressed and has not moved
C20_Witness ==
    /\ tab_open
    /\ dragging
    /\ selected_anchor # None
    /\ anchors[selected_anchor + 1][1] = 1

\* The input of preprocess_data, as the values it returns are written
AsGiven(a) == [i \in 1 .. Len(a) |-> Q(a[i], 1)]

\* 0 <= q <= 1
InUnitInterval(q) ==
    /\ q.k = "fin"
    /\ IF q.d > 0 THEN 0 <= q.n /\ q.n <= q.d ELSE 0 >= q.n /\ q.n >= q.d

\* C16: preprocess_data with normalize=True returns the absorbance unchanged when
\* max equals min, and values all within [0, 1] otherwise.
C16_NormalizeGuardsFlatSignal ==
    (norm_pc = "done" /\ normalize /\ absorbance # <<>>) =>
        /\ ~norm_result.raised
        /\ IF ArrayMax(absorbance) = ArrayMin(absorbance)
           THEN norm_result.absorbance = AsGiven(absorbance)
           ELSE \A i \in 1 .. Len(absorbance) : InUnitInterval(norm_result.absorbance[i])

C14_XAxisFromHeader ==
    codec_pc = "loaded" =>
        /\ Len(ylk_data.raw_data.x) = jws.point_number
        /\ Len(ylk_data.raw_data.y) = jws.point_number
        /\ \A i \in 0 .. (jws.point_number - 1) :
              /\ ylk_data.raw_data.x[i + 1] =
                    Round(DecAdd(jws.x_for_first_point, DecTimes(i, jws.x_increment)), 6)
              /\ ylk_data.raw_data.y[i + 1] =
                    IF jws.channel_number >= 1 THEN Round(YDataValue(i), 8) ELSE Dec(0, 0)
        /\ (/\ jws.channel_number = 1 /\ jws.point_number = 5
            /\ jws.x_for_first_point = Dec(1000, 0) /\ jws.x_increment = Dec(2, 0)) =>
              ylk_data.raw_data.x =
                 <<Dec(1000, 0), Dec(1002, 0), Dec(1004, 0), Dec(1006, 0), Dec(1008, 0)>>

\* the file of the concrete scenario was decoded
C14_Witness ==
    /\ codec_pc = "loaded"
    /\ jws.channel_number = 1
    /\ jws.point_number = 5
    /\ jws.x_for_first_point = Dec(1000, 0)
    /\ jws.x_increment = Dec(2, 0)
    /\ ylk_data.raw_data.x[5] = Dec(1008, 0)

\* a fractional increment was decoded: the third x is 0.5 + 2 * 0.1234567
C14_WitnessRounded ==
    /\ codec_pc = "loaded"
    /\ jws.x_for_first_point = Dec(0, 500000000)
    /\ jws.x_increment = Dec(0, 123456700)
    /\ jws.point_number >= 3
    /\ ylk_data.raw_data.x[3] = Dec(0, 746913000)

(***************************************************************************)
(* Claims about folders, selection and saving in the analyzer              *)
(***************************************************************************)
LoadedIn(fs, f) == \E j \in 1 .. Len(fs) : fs[j].path = f
\* the record loaded for slot sl in the folders map fs
RecordOf(fs, sl) ==
    LET fd == fs[CHOOSE j \in 1 .. Len(fs) : fs[j].path = sl[1]]
    IN fd.ylk_data[FileIndex(fd.files, sl[2])]
Decodes(sl) == jws_files[sl] # "absent" /\ ~DecodeFails(JwsOfKind(jws_files[sl]))
FailsToDecode(sl) == jws_files[sl] # "absent" /\ DecodeFails(JwsOfKind(jws_files[sl]))

\* C15: a .jws file that fails to decode (missing stream, truncated header,
\* short Y-Data) only makes the conversion return False: process_folder still
\* adds the folder, with every file of the folder that decodes converted
\* and loaded, and leaves the failing file's .ylk as it was.
C15_DecodeFailureSkipsFile ==
    [][\A f \in FolderPaths :
          (~LoadedIn(folders, f) /\ folders' # folders /\ LoadedIn(folders', f)) =>
             \A n \in FileNames :
                /\ Decodes(<<f, n>>) =>
                      /\ ylk_files'[<<f, n>>] = FreshYlk(<<f, n>>)
                      /\ FileIndex(folders'[Len(folders')].files, n) # 0
                      /\ RecordOf(folders', <<f, n>>).raw = <<f, n>>
                /\ FailsToDecode(<<f, n>>) => ylk_files'[<<f, n>>] = ylk_files[<<f, n>>]]_vars

\* a folder holding a file that fails to decode and one that decodes is loaded
C15_Witness ==
    /\ LoadedIn(folders, "A")
    /\ FailsToDecode(<<"A", "t">>)
    /\ jws_files[<<"A", "t">>] = "short Y-Data"
    /\ folders[FolderIndex("A")].files = <<"s">>
    /\ RecordOf(folders, <<"A", "s">>).raw = <<"A", "s">>

\* C17: a successful save_baseline writes only the file, the folder entry and
\* the selected data of the (folder, name) pair the tab was opened for; the
\* file, record and selected data of every other pair are left as they were.
C17_SaveTouchesOnlyOpenedRecord ==
    [][(baseline_tab.open /\ box' = "Success") =>
          LET o == baseline_tab.opened_for
          IN /\ ylk_files'[o].baseline = "computed"
             /\ \A sl \in Slots \ {o} : ylk_files'[sl] = ylk_files[sl]
             /\ \A sl \in Slots \ {o} :
                   (/\ LoadedIn(folders, sl[1])
                    /\ FileIndex(folders[FolderIndex(sl[1])].files, sl[2]) # 0) =>
                      RecordOf(folders', sl) = RecordOf(folders, sl)
             /\ \A i \in 1 .. Len(selected_files) :
                   selected_files[i] # o => selected_data'[i] = selected_data[i]]_vars

\* C18: when a folder is opened whose .ylk file holds a saved baseline and
\* whose .jws file is still there, the record loaded for it has that baseline
\* and its baseline_params.
C18_SavedBaselineSurvivesReopen ==
    [][\A sl \in Slots :
          (/\ ~LoadedIn(folders, sl[1])
           /\ folders' # folders
           /\ LoadedIn(folders', sl[1])
           /\ ylk_files[sl].present
           /\ ylk_files[sl].baseline = "computed"
           /\ jws_files[sl] # "absent") =>
             /\ RecordOf(folders', sl).baseline = "computed"
             /\ metadata'[RecordOf(folders', sl).meta].params]_vars

(***************************************************************************)
(* Claims about hit testing, dragging and the preview                      *)
(***************************************************************************)
\* squared pixel distance of anchor number i (from 1) to the mouse
AnchorDist2(ancs, i, mx, my) == PixelDist2(mx, my, ancs[i][1], ancs[i][2])
AnchorsWithin10(ancs, mx, my) ==
    {i \in 1 .. Len(ancs) : AnchorDist2(ancs, i, mx, my) < 10 * 10}
\* the tab after a left click inside the axes at (mx, my)
AfterLeftClick(mx, my) == OnMousePress(Tab, Ui, raw, TRUE, 1, mx, my)

\* C21 as stated: a left click selects the anchor with the smallest pixel
\* distance among those strictly closer than 10 pixels, the later-inserted one
\* when two are at the same smallest distance; with no anchor within 10 pixels
\* selected_anchor, dragging and the anchors are left unchanged.
C21_TieSelectsLaterAnchor ==
    tab_open =>
       \A mx \in MouseXs, my \in MouseYs :
          InView(mx, my) =>
             LET near == AnchorsWithin10(anchors, mx, my)
                 after == AfterLeftClick(mx, my)
             IN IF near = {}
                THEN /\ after.selected_anchor = selected_anchor
                     /\ after.dragging = dragging
                     /\ after.anchors = anchors
                ELSE LET s == after.selected_anchor + 1
                     IN /\ s \in near
                        /\ \A j \in near :
                              AnchorDist2(anchors, j, mx, my) >= AnchorDist2(anchors, s, mx, my)
                        /\ \A j \in near :
                              j > s =>
                                 AnchorDist2(anchors, j, mx, my) > AnchorDist2(anchors, s, mx, my)

\* C21, amended: the same, but when two anchors are at the same smallest
\* distance the earlier-inserted one (the lower index) is selected.
C21_TieSelectsEarlierAnchor ==
    tab_open =>
       \A mx \in MouseXs, my \in MouseYs :
          InView(mx, my) =>
             LET near == AnchorsWithin10(anchors, mx, my)
                 after == AfterLeftClick(mx, my)
             IN IF near = {}
                THEN /\ after.selected_anchor = selected_anchor
                     /\ after.dragging = dragging
                     /\ after.anchors = anchors
                ELSE LET s == after.selected_anchor + 1
                     IN /\ s \in near
                        /\ after.anchors = anchors
                        /\ \A j \in near :
                              AnchorDist2(anchors, j, mx, my) >= AnchorDist2(anchors, s, mx, my)
                        /\ \A j \in near :
                              j < s =>
                                 AnchorDist2(anchors, j, mx, my) > AnchorDist2(anchors, s, mx, my)

\* two anchors at different places are equally near the mouse, both within 10
\* pixels, and a click has selected the first of them
C21_Witness ==
    /\ tab_open
    /\ Len(anchors) = 2
    /\ anchors[1] # anchors[2]
    /\ selected_anchor = 0
    /\ dragging
    /\ \E mx \in MouseXs, my \in MouseYs :
          /\ InView(mx, my)
          /\ AnchorDist2(anchors, 1, mx, my) = AnchorDist2(anchors, 2, mx, my)
          /\ AnchorDist2(anchors, 1, mx, my) < 10 * 10

\* v clamped to the interval lim
Clamped(v, lim) == IF v < lim[1] THEN lim[1] ELSE IF v > lim[2] THEN lim[2] ELSE v

\* C22: while dragging, a mouse move inside the axes puts the selected anchor
\* at the mouse position clamped to the fixed axis limits captured at the
\* first render, so its x lies within _fixed_xlim and its y within
\* _fixed_ylim, and no other anchor changes; a move outside the axes, or
\* while not dragging, changes no anchor.
C22_DragClampedToFixedLimits ==
    tab_open =>
       \A inaxes \in BOOLEAN, mx \in MouseXs, my \in MouseYs :
          (inaxes => InView(mx, my)) =>
             LET after == OnMouseMove(Tab, Ui, raw, inaxes, mx, my)
                 s == selected_anchor + 1
             IN IF inaxes /\ dragging /\ selected_anchor # None
                THEN /\ Len(after.anchors) = Len(anchors)
                     /\ \A j \in 1 .. Len(anchors) : j # s => after.anchors[j] = anchors[j]
                     /\ fixed_lim.set =>
                           /\ after.fixed_lim = fixed_lim
                           /\ after.anchors[s] =
                                 <<Clamped(mx, fixed_lim.xlim), Clamped(my, fixed_lim.ylim)>>
                           /\ fixed_lim.xlim[1] <= after.anchors[s][1]
                           /\ after.anchors[s][1] <= fixed_lim.xlim[2]
                           /\ fixed_lim.ylim[1] <= after.anchors[s][2]
                           /\ after.anchors[s][2] <= fixed_lim.ylim[2]
                ELSE after.anchors = anchors

\* an anchor was dragged with the mouse above the fixed y limits and sits on the limit
C22_Witness ==
    /\ tab_open
    /\ fixed_lim.set
    /\ dragging
    /\ selected_anchor # None
    /\ Len(anchors) = 2
    /\ anchors[selected_anchor + 1][2] = fixed_lim.ylim[2]
    /\ fixed_lim.ylim[2] < 12

\* C23: a numeric failure during a preview recompute (rejected parameters, a
\* system the solve cannot solve) makes update_preview show the raw data with
\* the failure in the title: whenever the view shows a baseline or corrected
\* data, the baseline it was drawn from is finite.
C23_NoNonFiniteBaselineShown ==
    (tab_open /\ shown \in {"baseline", "corrected"}) =>
       AlsBaselineFinite(raw, GetParameters(lambda_edit, p_edit, smooth_checkbox))

(***************************************************************************)
(* Claims about the smoothing pre-pass                                     *)
(***************************************************************************)
\* C24: for every signal length n >= 1 the window length handed to
\* savgol_filter by get_baseline_with_raw and by baseline_correction is
\* min(51, max(5, floor(n/10))) rounded up to the next odd integer, so it is
\* odd and between 5 and 51, and the polynomial order is 3.
C24_WindowLength ==
    win_pc = "done" =>
       LET m == Min(51, Max(5, signal_len \div 10))
       IN /\ savgol.called
          /\ savgol.window_length = (IF m % 2 = 1 THEN m ELSE m + 1)
          /\ savgol.window_length % 2 = 1
          /\ 5 <= savgol.window_length /\ savgol.window_length <= 51
          /\ savgol.polyorder = 3

\* a length whose tenth is even: the window is made odd
C24_Witness ==
    /\ win_pc = "done"
    /\ signal_len = 60
    /\ savgol.window_length = 7

\* a length whose tenth is above the cap
C24_WitnessCapped ==
    /\ win_pc = "done"
    /\ signal_len = MaxSignalLen
    /\ savgol.window_length = 51

\* C25: the record's raw samples are never modified by previews, smooth
\* toggles, anchor edits or saves, and a baseline is computed from them alone:
\* the baseline a save stores was computed from the original samples, smoothed
\* exactly when the smooth box was set for that call, whatever calls preceded.
C25_RawSamplesAreTheAlsInput ==
    /\ raw.y = "original"
    /\ \A d \in {dicts.tab.baseline, dicts.rec.baseline, disk.baseline} :
          d.nx > 0 => d.input = (IF d.smooth THEN "smoothed" ELSE "original")
    /\ tab_open =>
          LET par == GetParameters(lambda_edit, p_edit, smooth_checkbox)
          IN ComputedBaseline(raw, par, anchors) =
                ComputedBaseline(RawData(raw.nx, raw.ny), par, anchors)

\* a baseline saved without smoothing in a tab that opened on a record saved
\* with smoothing, so that its first previews were computed with smoothing
C25_Witness ==
    /\ msg = "Success"
    /\ smooth_checkbox = FALSE
    /\ dicts.tab.baseline.nx > 0
    /\ dicts.tab.baseline.smooth = FALSE
    /\ dicts.tab.baseline.input = "original"
    /\ dicts.tab.meta # 0
    /\ metas[dicts.tab.meta].params.smooth = FALSE
    /\ dicts.rec.baseline.nx > 0
    /\ dicts.rec.baseline.smooth

\* C26: after a successful save the stored baseline_params has method
\* "als_with_anchors" exactly when the tab's anchor list is non-empty and
\* "als" otherwise, and holds the tab's anchor list exactly when it is
\* non-empty, in the file and in the record in memory; no anchors of an
\* earlier save remain.
C26_MethodTagMatchesAnchors ==
    msg = "Success" =>
       \A bp \in {disk.meta.params, metas[dicts[folder_slot].meta].params} :
          /\ bp.present
          /\ bp.method = (IF anchors # <<>> THEN "als_with_anchors" ELSE "als")
          /\ bp.has_anchors = (anchors # <<>>)
          /\ bp.anchors = anchors

\* a save with no anchors over a record that had been saved with an anchor
C26_Witness ==
    /\ msg = "Success"
    /\ anchors = <<>>
    /\ disk.meta.params.method = "als"
    /\ ~disk.meta.params.has_anchors
    /\ dicts.rec.baseline.anchors # <<>>

C28_SelectionIsValidIndex ==
    tab_open =>
       \/ selected_anchor = None
       \/ 0 <= selected_anchor /\ selected_anchor < Len(anchors)

\* the last anchor of a full list is selected
C28_Witness ==
    /\ tab_open
    /\ Len(anchors) = MaxTabAnchors
    /\ selected_anchor = Len(anchors) - 1

\* C29: in every state of a baseline tab dragging is true only while an
\* anchor is selected.
C29_DraggingImpliesSelection ==
    tab_open => (dragging => selected_anchor # None)

(***************************************************************************)
(* Claims about the selected files of the analyzer                         *)
(***************************************************************************)

\* The dataframe the loaded folders hold for a file key
DataOf(file_key) ==
    LET fd == folders[FolderIndex(file_key[1])]
    IN YlkToDataframe(fd.ylk_data[FileIndex(fd.files, file_key[2])])

\* C30: after any sequence of add_to_selected, on_file_double_click,
\* on_selected_double_click, remove_from_selected and clear_selected, the lists
\* selected_files, selected_data and visible_files have the same length, index
\* i of each refers to the same file, and a file that is no longer in the
\* selected list box is in none of the three lists.
C30_SelectedListsStayAligned ==
    /\ Len(selected_files) = Len(selected_data)
    /\ Len(selected_files) = Len(visible_files)
    /\ \A i \in 1 .. Len(selected_files) :
          /\ IsLoaded(selected_files[i][1])
          /\ i <= Len(selected_data) => selected_data[i] = DataOf(selected_files[i])
          /\ \E row \in 1 .. Len(selected_listbox) : selected_listbox[row] = selected_files[i]

====
